---- MODULE Spec2Model ----
(***************************************************************************)
(* Monitoring engine of open-monitoring: the geo-report ingest handler     *)
(* (backend/main.py, receive_geo_report) and the three-strike / flap       *)
(* detection state machine (update_subdomain_status_with_3strike), run     *)
(* against a PostgreSQL store through asyncpg connections; the prober      *)
(* (backend/uptime_checker.py: check_subdomain, run_checks), the scheduler *)
(* that fires it, the manual trigger POST /api/checks/run, and the         *)
(* scheduler service with its signal handling (scheduler_service.py); the  *)
(* subdomain discovery (subdomain_discovery.py), the fingerprinter        *)
(* (PlatformDetector.detect_platform), the agent-status and alerts views,  *)
(* and the asyncpg pools the classes create.                               *)
(*                                                                         *)
(* Every database statement awaited by the handler is one step: between    *)
(* two awaits an asyncio handler does not yield.  A transaction opened by  *)
(* conn.transaction() without an isolation argument runs at the server     *)
(* default, READ COMMITTED: a statement sees what is committed when it     *)
(* starts plus the transaction's own writes, and a row written by a        *)
(* transaction stays locked until that transaction ends.                   *)
(***************************************************************************)
EXTENDS Integers, Sequences, FiniteSets, TLC

\* ------------------------------------------------------------------ bounds
MaxChecksSM == 8      \* check records written in a run of SpecSM
MaxBatch    == 2      \* results in one report
MaxReports  == 2      \* reports accepted in a run of Spec
MaxIngestReports == 1 \* reports accepted in a run of SpecIngest
MaxIngestChecks  == 2 \* check records written in a run of SpecIngest
MaxStampedChecks == 6 \* check records written in a run of SpecStamps
MaxRuns     == 2      \* firings of the uptime_check job and manual requests
MaxDiscoveries == 2   \* pools left by discovery runs before the discovery job stops firing
MaxHeaders  == 3      \* header items of a response given to detect_platform
MaxClock    == 12     \* minutes on the store's clock in a run of SpecAgents
MaxLoggedChecks == 4  \* check records in the log when a report arrives in a run of SpecBothWriters

\* ------------------------------------------------------- program constants
StrikeThreshold == 3  \* consecutive agreeing outcomes that change the status
FlapWindow      == 5  \* LIMIT 5 of the flap-detection read
FlapMinUps      == 2
FlapMaxUps      == 3

Conns == {1, 2}                      \* pool connections serving requests
Hosts == {"a", "b"}                  \* the registry at start
AllowedLocations == {"EU", "PH", "SG"}
RawLocations == {"EU", "sg", "US"}   \* "location" values of incoming reports

VARIABLES
    subdomains,        \* monitoring.subdomains, committed: host -> state-machine columns
    uptime_checks,     \* monitoring.uptime_checks, committed, in commit order
    agent_heartbeats,  \* monitoring.agent_heartbeats, committed: location -> row
    now,               \* the store's clock, NOW()
    status_log,        \* the "Status changed" lines written by logger.info
    conn,              \* per connection: the handler running on it and its open transaction
    platforms,         \* monitoring.subdomains, columns platform and last_platform_check
    scheduler,         \* the process's APScheduler: started or not, job instances it has in flight
    service,           \* scheduler_service.py: MonitoringScheduler and the signals it has received
    run,               \* the invocations of UptimeChecker.run_checks in flight, by who started them
    probe,             \* one call of UptimeChecker.check_subdomain: what the network does, what it returns
    active,            \* monitoring.subdomains, column active
    pools,             \* the asyncpg pools created and not closed, by the class that created them
    discovery,         \* one call of SubdomainDiscovery.discover_all: what the network does, what it finds
    fingerprint        \* one call of PlatformDetector.detect_platform: its arguments, its label

prober_vars ==
    <<platforms, scheduler, service, run, probe, active, pools, discovery, fingerprint>>

vars == <<subdomains, uptime_checks, agent_heartbeats, now, status_log, conn, prober_vars>>

\* ------------------------------------------------------------------ helpers
NoRows == [h \in {} |-> 0]

\* str.upper() on the location strings that occur
Upper(s) ==
    CASE s = "eu" -> "EU"
      [] s = "ph" -> "PH"
      [] s = "sg" -> "SG"
      [] s = "us" -> "US"
      [] OTHER    -> s

\* A registry row no report has touched, as the state machine reads it: a missing
\* status reads UNKNOWN, missing counters read 0, a missing flag reads false.
FreshRow ==
    [current_status |-> "UNKNOWN", consecutive_up_count |-> 0,
     consecutive_down_count |-> 0, is_flapping |-> FALSE, last_status_change |-> 0]

NoRow ==
    [current_status |-> "", consecutive_up_count |-> 0,
     consecutive_down_count |-> 0, is_flapping |-> FALSE, last_status_change |-> 0]

NoLocals ==
    [current_status |-> "", new_status |-> "", consecutive_up |-> 0,
     consecutive_down |-> 0, is_flapping |-> FALSE, status_changed |-> FALSE]

IdleConn ==
    [pc |-> "idle", location |-> "", results |-> <<>>, idx |-> 0, tx_now |-> 0,
     tx_checks |-> <<>>, tx_rows |-> NoRows, tx_heartbeat |-> FALSE,
     row |-> NoRow, sm |-> NoLocals, response |-> "none", received |-> 0]

\* What a statement of connection c sees: committed data plus its own writes.
VisibleChecks(c) == uptime_checks \o conn[c].tx_checks

ViewRow(c, host) ==
    IF host \in DOMAIN conn[c].tx_rows THEN conn[c].tx_rows[host] ELSE subdomains[host]

RowLockedByOther(c, host) ==
    \E d \in Conns \ {c} : host \in DOMAIN conn[d].tx_rows

HeartbeatLockedByOther(c) ==
    \E d \in Conns \ {c} : conn[d].tx_heartbeat /\ conn[d].location = conn[c].location

\* ------------------------------------------------- the state machine, pure
ChecksOf(checks, host) == {k \in 1..Len(checks) : checks[k].subdomain = host}

\* SELECT up ... WHERE subdomain = $1 ORDER BY time DESC LIMIT 5: the sets of rows
\* the store may return; rows of equal time are returned in no fixed order.
RecentSets(checks, host) ==
    LET I == ChecksOf(checks, host)
        n == IF Cardinality(I) < FlapWindow THEN Cardinality(I) ELSE FlapWindow
    IN  {S \in SUBSET I :
            /\ Cardinality(S) = n
            /\ \A i \in S, j \in I \ S : checks[i].time >= checks[j].time}

RECURSIVE OrderDesc(_, _)
OrderDesc(checks, S) ==
    IF S = {} THEN <<>>
    ELSE LET m == CHOOSE i \in S : \A j \in S :
                      \/ checks[i].time > checks[j].time
                      \/ checks[i].time = checks[j].time /\ i >= j
         IN  <<[up |-> checks[m].up]>> \o OrderDesc(checks, S \ {m})

RecentChecks(checks, host) == {OrderDesc(checks, S) : S \in RecentSets(checks, host)}

CountUps(recent_checks) ==
    Cardinality({k \in 1..Len(recent_checks) : recent_checks[k].up})

\* main.py 721-728
DetectFlappingOnAnyMix(recent_checks, is_flapping) ==
    IF Len(recent_checks) >= FlapWindow
    THEN LET ups == CountUps(recent_checks)
         IN  1 <= ups /\ ups <= FlapWindow - 1
    ELSE is_flapping

DetectFlapping(recent_checks, is_flapping) ==
    IF Len(recent_checks) >= FlapWindow
    THEN LET ups == CountUps(recent_checks)
         IN  FlapMinUps <= ups /\ ups <= FlapMaxUps
    ELSE is_flapping

\* main.py 730-736
StaleUpCounter(is_up, consecutive_up) ==
    IF is_up THEN consecutive_up + 1 ELSE consecutive_up

UpCounter(is_up, consecutive_up) ==
    IF is_up THEN consecutive_up + 1 ELSE 0

DownCounter(is_up, consecutive_down) ==
    IF is_up THEN 0 ELSE consecutive_down + 1

\* main.py 738-750
TwoStrikeStatus(current_status, is_flapping, consecutive_up, consecutive_down) ==
    IF is_flapping THEN "FLAPPING"
    ELSE IF consecutive_up >= StrikeThreshold - 1 THEN "UP"
    ELSE IF consecutive_down >= StrikeThreshold - 1 THEN "DOWN"
    ELSE current_status

StrikeFirstStatus(current_status, is_flapping, consecutive_up, consecutive_down) ==
    IF consecutive_up >= StrikeThreshold THEN "UP"
    ELSE IF consecutive_down >= StrikeThreshold THEN "DOWN"
    ELSE IF is_flapping THEN "FLAPPING"
    ELSE current_status

StrictStrikeStatus(current_status, is_flapping, consecutive_up, consecutive_down) ==
    IF is_flapping THEN "FLAPPING"
    ELSE IF consecutive_up > StrikeThreshold THEN "UP"
    ELSE IF consecutive_down > StrikeThreshold THEN "DOWN"
    ELSE current_status

DegradedStatus(current_status, is_flapping, consecutive_up, consecutive_down) ==
    IF is_flapping THEN "DEGRADED"
    ELSE IF consecutive_up >= StrikeThreshold THEN "UP"
    ELSE IF consecutive_down >= StrikeThreshold THEN "DOWN"
    ELSE current_status

NewStatus(current_status, is_flapping, consecutive_up, consecutive_down) ==
    IF is_flapping THEN "FLAPPING"
    ELSE IF consecutive_up >= StrikeThreshold THEN "UP"
    ELSE IF consecutive_down >= StrikeThreshold THEN "DOWN"
    ELSE current_status

\* The locals of update_subdomain_status_with_3strike when it reaches its UPDATE.
ThreeStrike(row, recent_checks, is_up) ==
    LET is_flapping      == DetectFlapping(recent_checks, row.is_flapping)
        consecutive_up   == UpCounter(is_up, row.consecutive_up_count)
        consecutive_down == DownCounter(is_up, row.consecutive_down_count)
        new_status       == NewStatus(row.current_status, is_flapping,
                                      consecutive_up, consecutive_down)
    IN  [current_status   |-> row.current_status,
         new_status       |-> new_status,
         consecutive_up   |-> consecutive_up,
         consecutive_down |-> consecutive_down,
         is_flapping      |-> is_flapping,
         status_changed   |-> new_status # row.current_status]

\* The row the UPDATE leaves, given the row version it finds.
RestampedRow(found, sm, tx_now) ==
    [current_status         |-> sm.new_status,
     consecutive_up_count   |-> sm.consecutive_up,
     consecutive_down_count |-> sm.consecutive_down,
     is_flapping            |-> sm.is_flapping,
     last_status_change     |-> tx_now]

UpdatedRow(found, sm, tx_now) ==
    [current_status         |-> sm.new_status,
     consecutive_up_count   |-> sm.consecutive_up,
     consecutive_down_count |-> sm.consecutive_down,
     is_flapping            |-> sm.is_flapping,
     last_status_change     |-> IF sm.status_changed THEN tx_now
                                ELSE found.last_status_change]

CheckRecord(result, location) ==
    [time |-> result.timestamp, subdomain |-> result.subdomain,
     up |-> result.up, location |-> location]

\* --------------------------------------------- a geo-report's entries, read
\* The keys of an entry the INSERT reads with result[...]; a missing one raises
\* KeyError while the arguments are built (main.py 801-805).
RequiredFields == {"timestamp", "subdomain", "up"}

\* A "timestamp" string datetime.fromisoformat() refuses (main.py 801).
BadTimestamp == -1

FromIsoformatAccepts(timestamp) == timestamp >= 0

\* The INSERT's arguments can be built from the entry.
WellFormed(result) ==
    /\ RequiredFields \subseteq DOMAIN result
    /\ FromIsoformatAccepts(result.timestamp)

\* ------------------------------------------------ check_subdomain, pure
\* Python's None and a value that is not None.
None == <<>>
Some(v) == <<v>>

\* ---------------------------------------------------------- detect_platform
\* str.lower(), character by character.
LowerChar(c) ==
    CASE c = "A" -> "a"    [] c = "B" -> "b"    [] c = "C" -> "c"    [] c = "D" -> "d"
      [] c = "E" -> "e"    [] c = "F" -> "f"    [] c = "G" -> "g"    [] c = "H" -> "h"
      [] c = "I" -> "i"    [] c = "J" -> "j"    [] c = "K" -> "k"    [] c = "L" -> "l"
      [] c = "M" -> "m"    [] c = "N" -> "n"    [] c = "O" -> "o"    [] c = "P" -> "p"
      [] c = "Q" -> "q"    [] c = "R" -> "r"    [] c = "S" -> "s"    [] c = "T" -> "t"
      [] c = "U" -> "u"    [] c = "V" -> "v"    [] c = "W" -> "w"    [] c = "X" -> "x"
      [] c = "Y" -> "y"    [] c = "Z" -> "z"
      [] OTHER -> c

RECURSIVE Lower(_)
Lower(s) ==
    IF s = "" THEN "" ELSE LowerChar(SubSeq(s, 1, 1)) \o Lower(SubSeq(s, 2, Len(s)))

\* Python's `t in s`, for a t that is not empty.
Contains(s, t) ==
    \E i \in 1..(Len(s) - Len(t) + 1) : SubSeq(s, i, i + Len(t) - 1) = t

Least(S) == CHOOSE x \in S : \A y \in S : x <= y
Greatest(S) == CHOOSE x \in S : \A y \in S : x >= y

\* re.search(r'<name>/([\d.]+)', raw): the digits and dots after the leftmost
\* "<name>/" that is followed by one, as the f-string appends them; "" if none.
VersionChars == {"0", "1", "2", "3", "4", "5", "6", "7", "8", "9", "."}

RECURSIVE VersionRun(_, _)
VersionRun(raw, i) ==
    IF i <= Len(raw) /\ SubSeq(raw, i, i) \in VersionChars
    THEN SubSeq(raw, i, i) \o VersionRun(raw, i + 1)
    ELSE ""

Version(name, raw) ==
    LET p == name \o "/"
        at == {i \in 1..(Len(raw) - Len(p)) :
                 /\ SubSeq(raw, i, i + Len(p) - 1) = p
                 /\ SubSeq(raw, i + Len(p), i + Len(p)) \in VersionChars}
    IN  IF name = "" \/ at = {} THEN "" ELSE " " \o VersionRun(raw, Least(at) + Len(p))

\* uptime_checker.py 25: the headers, given as the (name, value) items in the order
\* items() yields them, become a dict keyed by the lower-cased names; of two items
\* with the same lower-cased name the later one stays.
LowerKeys(headers) ==
    LET names == {Lower(headers[i][1]) : i \in DOMAIN headers}
    IN  [n \in names |->
           headers[Greatest({i \in DOMAIN headers : Lower(headers[i][1]) = n})][2]]

\* dict.get(name, '')
Get(h, name) == IF name \in DOMAIN h THEN h[name] ELSE ""

\* uptime_checker.py 28-29
CloudflareHeaders == {"cf-ray", "cf-cache-status", "cf-request-id"}

CloudflareLabel(h) ==
    IF CloudflareHeaders \cap DOMAIN h # {} THEN Some("Cloudflare") ELSE None

\* uptime_checker.py 35-78: the if/elif chain on the lower-cased Server header; the
\* version is searched for in the header as sent.
ServerRules ==
    << [any |-> {"nginx"}, label |-> "Nginx", version |-> "nginx"],
       [any |-> {"apache"}, label |-> "Apache", version |-> "apache"],
       [any |-> {"iis", "microsoft-iis"}, label |-> "IIS", version |-> "microsoft-iis"],
       [any |-> {"lighttpd"}, label |-> "Lighttpd", version |-> "lighttpd"],
       [any |-> {"caddy"}, label |-> "Caddy", version |-> "caddy"],
       [any |-> {"node.js", "express"}, label |-> "Node.js", version |-> ""],
       [any |-> {"gunicorn"}, label |-> "Gunicorn", version |-> "gunicorn"],
       [any |-> {"uwsgi"}, label |-> "uWSGI", version |-> ""],
       [any |-> {"uvicorn"}, label |-> "Uvicorn", version |-> "uvicorn"],
       [any |-> {"hypercorn"}, label |-> "Hypercorn", version |-> ""],
       [any |-> {"daphne"}, label |-> "Daphne", version |-> ""],
       [any |-> {"tomcat"}, label |-> "Tomcat", version |-> "tomcat"],
       [any |-> {"jetty"}, label |-> "Jetty", version |-> "jetty"] >>

\* uptime_checker.py 81-109: the chain on the lower-cased X-Powered-By header.
PoweredByRules ==
    << [any |-> {"php"}, label |-> "PHP", version |-> "php"],
       [any |-> {"asp.net"}, label |-> "ASP.NET", version |-> ""],
       [any |-> {"django"}, label |-> "Django", version |-> "django"],
       [any |-> {"flask"}, label |-> "Flask", version |-> ""],
       [any |-> {"fastapi"}, label |-> "FastAPI", version |-> ""],
       [any |-> {"express"}, label |-> "Express.js", version |-> ""],
       [any |-> {"rails"}, label |-> "Ruby on Rails", version |-> ""],
       [any |-> {"laravel"}, label |-> "Laravel", version |-> ""],
       [any |-> {"symfony"}, label |-> "Symfony", version |-> ""],
       [any |-> {"spring"}, label |-> "Spring Boot", version |-> ""],
       [any |-> {"next.js"}, label |-> "Next.js", version |-> ""],
       [any |-> {"nuxt"}, label |-> "Nuxt.js", version |-> ""] >>

\* The first rule of a chain that the value matches decides.
ValueLabel(chain, raw) ==
    LET hits == {i \in DOMAIN chain : \E t \in chain[i].any : Contains(Lower(raw), t)}
    IN  IF hits = {} THEN None
        ELSE Some(chain[Least(hits)].label \o Version(chain[Least(hits)].version, raw))

\* uptime_checker.py 112-152: the chain on the presence of a header, as far as the
\* x-cdn rule.
HostingHeaders ==
    << <<"x-amz-cf-id", "CloudFront (AWS)">>,
       <<"cf-ray", "Cloudflare">>,
       <<"x-vercel-id", "Vercel">>,
       <<"x-netlify", "Netlify">>,
       <<"x-github-request-id", "GitHub Pages">>,
       <<"x-render-id", "Render">>,
       <<"x-fly-request-id", "Fly.io">>,
       <<"x-railway-static-url", "Railway">>,
       <<"x-replit-user-name", "Replit">>,
       <<"x-glitch-request-id", "Glitch">>,
       <<"x-surge-id", "Surge.sh">>,
       <<"x-fastly-request-id", "Fastly">>,
       <<"x-akamai-transformed", "Akamai">>,
       <<"x-fastly-request-id", "Fastly">>,
       <<"x-akamai-transformed", "Akamai">>,
       <<"x-varnish", "Varnish">>,
       <<"x-squid-error", "Squid">>,
       <<"x-keycdn-request-id", "KeyCDN">> >>

CdnLabel(h) ==
    LET hits == {i \in DOMAIN HostingHeaders : HostingHeaders[i][1] \in DOMAIN h}
    IN  IF hits # {} THEN Some(HostingHeaders[Least(hits)][2])
        ELSE IF "x-cdn" \in DOMAIN h /\ Contains(Lower(h["x-cdn"]), "stackpath")
             THEN Some("StackPath")
        ELSE None

\* uptime_checker.py 112-163: the same chain to its end. The branch of the security
\* headers is an elif of the chain like the others: when it is taken, the two
\* branches after it are not tried.
SecurityHeaders == {"x-xss-protection", "x-content-type-options"}

HostingLabel(h) ==
    IF CdnLabel(h) # None THEN CdnLabel(h)
    ELSE IF SecurityHeaders \cap DOMAIN h # {} THEN None
    ELSE IF "x-dost-gov-ph" \in DOMAIN h \/ Contains(Lower(Get(h, "server")), "gov.ph")
         THEN Some("Philippine Government")
    ELSE IF "x-bettergov" \in DOMAIN h THEN Some("BetterGov Platform")
    ELSE None

\* uptime_checker.py 166-203: the chain on the body; the WordPress and the data-v-
\* signatures are looked for in the text as received, the others in its lower case.
BodyLabel(response_text) ==
    LET Has(t) == Contains(Lower(response_text), t)
        Raw(t) == Contains(response_text, t)
    IN  IF response_text = "" THEN None
        ELSE IF Raw("wp-content") \/ Raw("wp-includes") \/ Raw("wp-json")
             THEN Some("WordPress")
        ELSE IF Has("drupal") THEN Some("Drupal")
        ELSE IF Has("joomla") THEN Some("Joomla")
        ELSE IF Has("magento") THEN Some("Magento")
        ELSE IF Has("shopify") THEN Some("Shopify")
        ELSE IF Has("squarespace") THEN Some("Squarespace")
        ELSE IF Has("wix") THEN Some("Wix")
        ELSE IF Has("weebly") THEN Some("Weebly")
        ELSE IF Has("jekyll") THEN Some("Jekyll")
        ELSE IF Has("hugo") THEN Some("Hugo")
        ELSE IF Has("gatsby") THEN Some("Gatsby")
        ELSE IF Has("eleventy") \/ Has("11ty") THEN Some("Eleventy")
        ELSE IF Has("react") /\ Has("data-reactroot") THEN Some("React")
        ELSE IF Has("vue") /\ Raw("data-v-") THEN Some("Vue.js")
        ELSE IF Has("angular") THEN Some("Angular")
        ELSE None

\* Each group of rules returns as soon as one of its rules matches; 'Unknown' is
\* returned when none did (uptime_checker.py 205).
FirstLabel(labels) ==
    LET hits == {i \in DOMAIN labels : labels[i] # None}
    IN  IF hits = {} THEN "Unknown" ELSE labels[Least(hits)][1]

\* uptime_checker.py 23-205
detect_platform(headers, response_text) ==
    LET h == LowerKeys(headers)
    IN  FirstLabel(<<CloudflareLabel(h),
                     ValueLabel(ServerRules, Get(h, "server")),
                     ValueLabel(PoweredByRules, Get(h, "x-powered-by")),
                     HostingLabel(h),
                     BodyLabel(response_text)>>)

\* ------------------------------------------------ check_subdomain, values
Statuses == {200, 404, 499, 500, 503}     \* response.status
ServerHeaders == {"nginx", ""}            \* the Server header of a response
Texts == {"wp-content", ""}               \* what the body holds

\* What the network does to one session.get(): a response whose body can be read
\* or not; a response followed by an exception that leaves the `async with` block,
\* raised by the platform detection of the bare except or on leaving the block;
\* a connection error, a timeout or another exception before any response.
Attempts ==
    [kind : {"response"}, status : Statuses, server : ServerHeaders,
     text : Texts, body_read : BOOLEAN, raised_at : {""}]
    \cup [kind : {"response_then_error"}, status : Statuses, server : ServerHeaders,
          text : {""}, body_read : {FALSE}, raised_at : {"detect", "exit"}]
    \cup [kind : {"connector_error", "timeout", "error"}, status : {0}, server : {""},
          text : {""}, body_read : {FALSE}, raised_at : {""}]

\* uptime_checker.py 275-279: the label of a response that carries this Server
\* header and this body.
DetectPlatform(server, response_text) ==
    detect_platform(<<<<"Server", server>>>>, response_text)

\* uptime_checker.py 244-252
InitialResult(subdomain) ==
    [subdomain |-> subdomain, up |-> FALSE, status_code |-> None,
     response_time_ms |-> None, platform |-> "Unknown", error_message |-> None,
     headers |-> ""]

\* uptime_checker.py 266
LenientUp(status) == status <= 500

IsUp(status) == status < 500

\* uptime_checker.py 262-270: the status, the elapsed time since the start of the
\* call, the verdict and the headers are recorded together.
Recorded(result, a, elapsed) ==
    [result EXCEPT !.status_code = Some(a.status),
                   !.response_time_ms = Some(elapsed),
                   !.up = IsUp(a.status),
                   !.headers = a.server]

\* uptime_checker.py 285-286
TimedOutUnreported(result) == result

TimedOut(result) ==
    [result EXCEPT !.error_message = Some("Timeout")]

\* uptime_checker.py 283-284
ConnectionFailed(result) ==
    [result EXCEPT !.error_message = Some("Connection failed")]

\* uptime_checker.py 260-289: one pass of the loop over the protocols.
AfterAttempt(result, a, elapsed) ==
    CASE a.kind = "response" ->
            [Recorded(result, a, elapsed) EXCEPT !.platform =
                DetectPlatform(a.server, IF a.body_read THEN a.text ELSE "")]
      [] a.kind = "response_then_error" ->
            [Recorded(result, a, elapsed) EXCEPT
                !.platform = IF a.raised_at = "exit"
                             THEN DetectPlatform(a.server, "") ELSE @,
                !.error_message = Some("Error")]
      [] a.kind = "connector_error" -> ConnectionFailed(result)
      [] a.kind = "timeout" -> TimedOut(result)
      [] OTHER -> [result EXCEPT !.error_message = Some("Error")]

\* uptime_checker.py 242-294: https first; http only if https did not break out of
\* the loop.  attempts[1] is what https meets, attempts[2] what http would meet.
CheckSubdomain(subdomain, attempts) ==
    LET https == AfterAttempt(InitialResult(subdomain), attempts[1], 1)
    IN  IF attempts[1].kind = "response" THEN https
        ELSE AfterAttempt(https, attempts[2], 2)

NoProbe == [subdomain |-> "", attempts |-> <<>>, result |-> None]

\* ------------------------------------------------------ run_checks, values
Origins == {"scheduler", "manual"}   \* who started an invocation of run_checks
Discoverable == {"c"}                \* hosts a discovery may find beyond the known ones
HostOrder == <<"a", "b", "c">>       \* ORDER BY subdomain

IdleRun ==
    [pc |-> "none", subdomains |-> <<>>, results |-> <<>>, idx |-> 0, attempt |-> 0]

\* uptime_checker.py 310: max_retries
MaxRetries == 3

NoPlatform == [platform |-> None, last_platform_check |-> None]

\* The options of the two jobs. No add_job call that the program reaches passes
\* misfire_grace_time or coalesce (main.py 575-592, uptime_checker.py 393-410), so
\* the scheduler's own defaults hold: a grace of one second, and coalescing of the
\* run times that are due together into the latest of them.
DefaultMisfireGraceTime == 1

AddedJobs ==
    [uptime_check |-> [misfire_grace_time |-> DefaultMisfireGraceTime],
     subdomain_discovery |-> [misfire_grace_time |-> DefaultMisfireGraceTime]]

\* How late, in seconds, the scheduler may get to a run time of each job.
Lateness ==
    [uptime_check |-> {1, 10, 40}, subdomain_discovery |-> {1, 200, 400}]

StoppedScheduler ==
    [running |-> FALSE, discovering |-> FALSE, skipped |-> FALSE,
     jobs |-> NoRows, missed |-> {}]

NoService == [started |-> FALSE, running |-> TRUE, signalled |-> FALSE]

\* uptime_checker.py 209, subdomain_discovery.py 47: no pool before the first use.
NoPools == [checker |-> 0, discovery |-> 0]

NoDiscovery == [html |-> None, probes |-> NoRows, found |-> None]

NoFingerprint == [headers |-> NoRows, response_text |-> "", label |-> None]

\* -------------------------------------------------------------------- Init
Init ==
    /\ subdomains = [h \in Hosts |-> FreshRow]
    /\ uptime_checks = <<>>
    /\ agent_heartbeats = NoRows
    /\ now = 0
    /\ status_log = <<>>
    /\ conn = [c \in Conns |-> IdleConn]
    /\ platforms = [h \in Hosts |-> NoPlatform]
    /\ scheduler = StoppedScheduler
    /\ service = NoService
    /\ run = [o \in Origins |-> IdleRun]
    /\ probe = NoProbe
    /\ active = [h \in Hosts |-> TRUE]
    /\ pools = NoPools
    /\ discovery = NoDiscovery
    /\ fingerprint = NoFingerprint

\* ------------------------------------------------- receive_geo_report, steps
\* After a result is done: the next iteration of the for loop, or the end of the
\* transaction block.
NextResult(k) ==
    IF k.idx < Len(k.results)
    THEN [k EXCEPT !.pc = "insert", !.idx = k.idx + 1, !.row = NoRow, !.sm = NoLocals]
    ELSE [k EXCEPT !.pc = "commit", !.row = NoRow, !.sm = NoLocals]

\* main.py 767-782: a report of an accepted location opens a transaction, under
\* the upper-cased location.
ReceiveAsSent(c, location, results) ==
    /\ conn[c].pc = "idle"
    /\ Upper(location) \in AllowedLocations
    /\ now' = now + 1
    /\ conn' = [conn EXCEPT ![c] =
                  [IdleConn EXCEPT !.pc = "heartbeat", !.location = location,
                                   !.results = results, !.tx_now = now + 1]]
    /\ UNCHANGED <<subdomains, uptime_checks, agent_heartbeats, status_log>>
    /\ UNCHANGED prober_vars

Receive(c, location, results) ==
    /\ conn[c].pc = "idle"
    /\ Upper(location) \in AllowedLocations
    /\ now' = now + 1
    /\ conn' = [conn EXCEPT ![c] =
                  [IdleConn EXCEPT !.pc = "heartbeat", !.location = Upper(location),
                                   !.results = results, !.tx_now = now + 1]]
    /\ UNCHANGED <<subdomains, uptime_checks, agent_heartbeats, status_log>>
    /\ UNCHANGED prober_vars

\* main.py 774-776: any other location is turned away before the store is touched.
RejectAfterHeartbeat(c, location, results) ==
    /\ conn[c].pc = "idle"
    /\ Upper(location) \notin AllowedLocations
    /\ agent_heartbeats' = (Upper(location) :> [last_seen |-> now, status |-> "active"])
                            @@ agent_heartbeats
    /\ conn' = [conn EXCEPT ![c] =
                  [IdleConn EXCEPT !.pc = "respond", !.response = "rejected"]]
    /\ UNCHANGED <<subdomains, uptime_checks, now, status_log>>
    /\ UNCHANGED prober_vars

Reject(c, location, results) ==
    /\ conn[c].pc = "idle"
    /\ Upper(location) \notin AllowedLocations
    /\ conn' = [conn EXCEPT ![c] =
                  [IdleConn EXCEPT !.pc = "respond", !.response = "rejected"]]
    /\ UNCHANGED <<subdomains, uptime_checks, agent_heartbeats, now, status_log>>
    /\ UNCHANGED prober_vars

\* main.py 784-790: the upsert waits while another open transaction holds the
\* location's row (or is inserting it).
UpsertHeartbeat(c) ==
    /\ conn[c].pc = "heartbeat"
    /\ ~HeartbeatLockedByOther(c)
    /\ conn' = [conn EXCEPT ![c] =
                  IF Len(@.results) = 0
                  THEN [@ EXCEPT !.pc = "commit", !.tx_heartbeat = TRUE]
                  ELSE [@ EXCEPT !.pc = "insert", !.idx = 1, !.tx_heartbeat = TRUE]]
    /\ UNCHANGED <<subdomains, uptime_checks, agent_heartbeats, now, status_log>>
    /\ UNCHANGED prober_vars

\* main.py 795-808
InsertCheck(c) ==
    /\ conn[c].pc = "insert"
    /\ WellFormed(conn[c].results[conn[c].idx])
    /\ conn' = [conn EXCEPT ![c] =
                  [@ EXCEPT !.pc = "fetchrow",
                            !.tx_checks = Append(@, CheckRecord(conn[c].results[conn[c].idx],
                                                                conn[c].location))]]
    /\ UNCHANGED <<subdomains, uptime_checks, agent_heartbeats, now, status_log>>
    /\ UNCHANGED prober_vars

\* main.py 698-711: the state machine reads the row; no row, nothing to do.
FetchRow(c) ==
    /\ conn[c].pc = "fetchrow"
    /\ LET host == conn[c].results[conn[c].idx].subdomain
       IN  conn' = [conn EXCEPT ![c] =
                      IF host \in DOMAIN subdomains
                      THEN [@ EXCEPT !.pc = "fetchrecent", !.row = ViewRow(c, host)]
                      ELSE NextResult(@)]
    /\ UNCHANGED <<subdomains, uptime_checks, agent_heartbeats, now, status_log>>
    /\ UNCHANGED prober_vars

\* main.py 714-750: the last five checks are read, and the new state is computed
\* from them and from the row read before.
FetchRecent(c) ==
    /\ conn[c].pc = "fetchrecent"
    /\ LET result == conn[c].results[conn[c].idx]
       IN  \E recent_checks \in RecentChecks(VisibleChecks(c), result.subdomain) :
              conn' = [conn EXCEPT ![c] =
                         [@ EXCEPT !.pc = "update",
                                   !.sm = ThreeStrike(conn[c].row, recent_checks, result.up)]]
    /\ UNCHANGED <<subdomains, uptime_checks, agent_heartbeats, now, status_log>>
    /\ UNCHANGED prober_vars

\* main.py 753-764: the UPDATE waits while another open transaction holds the row,
\* then overwrites the row version it finds; a change of status is logged.
ExecuteUpdate(c) ==
    /\ conn[c].pc = "update"
    /\ LET host == conn[c].results[conn[c].idx].subdomain
           sm == conn[c].sm
       IN  /\ ~RowLockedByOther(c, host)
           /\ conn' = [conn EXCEPT ![c] =
                         NextResult([@ EXCEPT !.tx_rows =
                                        (host :> UpdatedRow(ViewRow(c, host), sm, conn[c].tx_now))
                                        @@ @])]
           /\ status_log' = IF sm.status_changed
                            THEN Append(status_log, [subdomain |-> host,
                                                     from |-> sm.current_status,
                                                     to |-> sm.new_status])
                            ELSE status_log
    /\ UNCHANGED <<subdomains, uptime_checks, agent_heartbeats, now>>
    /\ UNCHANGED prober_vars

\* main.py 782, 813 (leaving the transaction block): everything written becomes
\* visible at once and the locks go; the answer is made.
Commit(c) ==
    /\ conn[c].pc = "commit"
    /\ subdomains' = [h \in DOMAIN subdomains |-> ViewRow(c, h)]
    /\ uptime_checks' = uptime_checks \o conn[c].tx_checks
    /\ agent_heartbeats' =
          IF conn[c].tx_heartbeat
          THEN (conn[c].location :> [last_seen |-> conn[c].tx_now, status |-> "active"])
               @@ agent_heartbeats
          ELSE agent_heartbeats
    /\ conn' = [conn EXCEPT ![c] =
                  [@ EXCEPT !.pc = "respond", !.tx_checks = <<>>, !.tx_rows = NoRows,
                            !.tx_heartbeat = FALSE, !.response = "success",
                            !.received = Len(conn[c].results)]]
    /\ UNCHANGED <<now, status_log>>
    /\ UNCHANGED prober_vars

\* main.py 815-817: a statement raises (connection lost, deadlock victim, ...); the
\* transaction block rolls back and the handler answers with an error.
InTransaction(c) ==
    conn[c].pc \in {"heartbeat", "insert", "fetchrow", "fetchrecent", "update", "commit"}

Rollback(c) ==
    /\ InTransaction(c)
    /\ conn' = [conn EXCEPT ![c] =
                  [@ EXCEPT !.pc = "respond", !.tx_checks = <<>>, !.tx_rows = NoRows,
                            !.tx_heartbeat = FALSE, !.row = NoRow, !.sm = NoLocals,
                            !.response = "error"]]
    /\ UNCHANGED <<subdomains, uptime_checks, agent_heartbeats, now, status_log>>
    /\ UNCHANGED prober_vars

\* main.py 795-808, 815-817: building the INSERT's arguments from a malformed entry
\* raises; the exception leaves the transaction block, which rolls back, and the
\* handler answers with an error.
InsertFailsCommitting(c) ==
    /\ conn[c].pc = "insert"
    /\ ~WellFormed(conn[c].results[conn[c].idx])
    /\ uptime_checks' = uptime_checks \o conn[c].tx_checks
    /\ conn' = [conn EXCEPT ![c] =
                  [@ EXCEPT !.pc = "respond", !.tx_checks = <<>>, !.tx_rows = NoRows,
                            !.tx_heartbeat = FALSE, !.row = NoRow, !.sm = NoLocals,
                            !.response = "error"]]
    /\ UNCHANGED <<subdomains, agent_heartbeats, now, status_log>>
    /\ UNCHANGED prober_vars

InsertFails(c) ==
    /\ conn[c].pc = "insert"
    /\ ~WellFormed(conn[c].results[conn[c].idx])
    /\ conn' = [conn EXCEPT ![c] =
                  [@ EXCEPT !.pc = "respond", !.tx_checks = <<>>, !.tx_rows = NoRows,
                            !.tx_heartbeat = FALSE, !.row = NoRow, !.sm = NoLocals,
                            !.response = "error"]]
    /\ UNCHANGED <<subdomains, uptime_checks, agent_heartbeats, now, status_log>>
    /\ UNCHANGED prober_vars

\* main.py 813, 817: the handler returns; the connection goes back to the pool.
Respond(c) ==
    /\ conn[c].pc = "respond"
    /\ conn' = [conn EXCEPT ![c] = IdleConn]
    /\ UNCHANGED <<subdomains, uptime_checks, agent_heartbeats, now, status_log>>
    /\ UNCHANGED prober_vars

\* ------------------------------------------------------------------ inputs
Outcomes(hosts) == [subdomain : hosts, up : BOOLEAN]

\* The results list an agent sends: entry k carries a host, an outcome and the
\* agent's timestamp, later for each later entry and later than every committed check.
Stamped(outs) ==
    [k \in 1..Len(outs) |-> [subdomain |-> outs[k].subdomain, up |-> outs[k].up,
                             timestamp |-> Len(uptime_checks) + k]]

\* One agent reporting on one host in turn, each report finished before the next
\* arrives.
ReceiveInTurn(c) ==
    /\ \A d \in Conns : conn[d].pc = "idle"
    /\ \E n \in 1..MaxBatch :
          /\ Len(uptime_checks) + n <= MaxChecksSM
          /\ \E outs \in [1..n -> Outcomes({"a"})] : Receive(c, "EU", Stamped(outs))

\* One agent reporting on one host while the prober writes to the same log.
ReceiveBesideProber(c) ==
    /\ conn[c].pc = "idle"
    /\ \E n \in 1..MaxBatch :
          /\ Len(uptime_checks) + n <= MaxLoggedChecks
          /\ \E outs \in [1..n -> Outcomes({"a"})] : Receive(c, "EU", Stamped(outs))

\* Any agent, any location string, while other reports are being processed.
ReceiveAny(c) ==
    /\ now < MaxReports
    /\ \E location \in RawLocations, n \in 0..MaxBatch :
          \E outs \in [1..n -> Outcomes(Hosts)] : Receive(c, location, Stamped(outs))

RejectAny(c) ==
    \E location \in RawLocations, n \in 0..MaxBatch :
       \E outs \in [1..n -> Outcomes(Hosts)] : Reject(c, location, Stamped(outs))

\* A host no registry row exists for.
Unregistered == "x"

Without(result, field) == [f \in DOMAIN result \ {field} |-> result[f]]

\* What can be wrong with a results list: nothing, or entry k has a required key
\* missing or a timestamp that does not parse.
Damages(n) ==
    {<<0, "none">>} \cup ((1..n) \X {"no timestamp", "no up", "bad timestamp"})

Damaged(results, d) ==
    IF d[1] = 0 THEN results
    ELSE [results EXCEPT ![d[1]] =
             CASE d[2] = "no timestamp" -> Without(@, "timestamp")
               [] d[2] = "no up"        -> Without(@, "up")
               [] OTHER                 -> [@ EXCEPT !.timestamp = BadTimestamp]]

\* One agent at a time, reporting on a registered and an unregistered host, with
\* well-formed and malformed entries, under an accepted or a refused location.
BatchLocation == "sg"

ReceiveBatch(c) ==
    /\ now < MaxIngestReports
    /\ \E n \in 0..MaxBatch :
          /\ Len(uptime_checks) + n <= MaxIngestChecks
          /\ \E outs \in [1..n -> Outcomes({"a", Unregistered})], d \in Damages(n) :
                Receive(c, BatchLocation, Damaged(Stamped(outs), d))

RejectBatch(c) ==
    \E location \in RawLocations, n \in 0..MaxBatch :
       \E outs \in [1..n -> Outcomes({"a", Unregistered})], d \in Damages(n) :
          Reject(c, location, Damaged(Stamped(outs), d))

\* The results list of an agent whose clock is right for some entries and far
\* behind for the entries in `stale`.
StampedBy(outs, stale) ==
    [k \in 1..Len(outs) |-> [subdomain |-> outs[k].subdomain, up |-> outs[k].up,
                             timestamp |-> IF k \in stale THEN 0
                                           ELSE Len(uptime_checks) + k]]

ReceiveStamped(c) ==
    /\ \A d \in Conns : conn[d].pc = "idle"
    /\ \E n \in 1..MaxBatch :
          /\ Len(uptime_checks) + n <= MaxStampedChecks
          /\ \E outs \in [1..n -> Outcomes({"a"})], stale \in SUBSET (1..n) :
                Receive(c, "EU", StampedBy(outs, stale))

\* ------------------------------------------------- the prober, its steps
\* What the two attempts of a probe meet in a prober run: the host answers, or it
\* cannot be reached.
Answering ==
    [kind |-> "response", status |-> 200, server |-> "nginx", text |-> "",
     body_read |-> TRUE, raised_at |-> ""]

Unreachable ==
    [kind |-> "timeout", status |-> 0, server |-> "", text |-> "",
     body_read |-> FALSE, raised_at |-> ""]

NetworkCases == {<<Answering, Answering>>, <<Unreachable, Unreachable>>}

\* uptime_checker.py 314-327: the row save_check_result inserts; the INSERT names
\* no location column.
ProbeRecord(result, time) ==
    [time |-> time, subdomain |-> result.subdomain, up |-> result.up, location |-> "NULL"]

\* subdomain_discovery.py 129-143: the upsert adds a row for a host that has none
\* and leaves the state-machine and platform columns of the others alone.
Replaced(rows, found, fresh) ==
    [h \in found |-> IF h \in DOMAIN rows THEN rows[h] ELSE fresh]

UpsertedAfresh(rows, found, fresh) ==
    [h \in DOMAIN rows \cup found |-> IF h \in found THEN fresh ELSE rows[h]]

Upserted(rows, found, fresh) ==
    [h \in DOMAIN rows \cup found |-> IF h \in DOMAIN rows THEN rows[h] ELSE fresh]

\* subdomain_discovery.py 135-141: the upsert sets active on every host it is given.
Activated(flags, found) ==
    [h \in DOMAIN flags \cup found |-> IF h \in found THEN TRUE ELSE flags[h]]

\* uptime_checker.py 221-229: the active hosts, ORDER BY subdomain.
ActiveSubdomains ==
    SelectSeq(HostOrder, LAMBDA h : h \in DOMAIN subdomains /\ active[h])

\* An invocation of run_checks is between its first and its last statement.
InFlight(o) == run[o].pc \in {"list", "pool", "gather", "save", "platform"}

\* main.py 564-598, POST /api/scheduler/start: the jobs are added and the
\* scheduler is started.
StartScheduler ==
    /\ ~scheduler.running
    /\ scheduler' = [scheduler EXCEPT !.running = TRUE, !.jobs = AddedJobs]
    /\ UNCHANGED <<subdomains, uptime_checks, agent_heartbeats, now, status_log, conn,
                   platforms, service, run, probe>>
    /\ UNCHANGED <<active, pools, discovery, fingerprint>>

\* scheduler_service.py 18-32, uptime_checker.py 386-419: the service registers its
\* signal handlers, adds the jobs, starts the scheduler and waits.
StartService ==
    /\ ~service.started
    /\ ~scheduler.running
    /\ service' = [service EXCEPT !.started = TRUE]
    /\ scheduler' = [scheduler EXCEPT !.running = TRUE, !.jobs = AddedJobs]
    /\ UNCHANGED <<subdomains, uptime_checks, agent_heartbeats, now, status_log, conn,
                   platforms, run, probe>>
    /\ UNCHANGED <<active, pools, discovery, fingerprint>>

\* scheduler_service.py 22-24: SIGINT or SIGTERM arrives; the handler sets
\* self.running, which nothing reads, and returns.
Signal ==
    /\ service.started
    /\ service' = [service EXCEPT !.running = FALSE, !.signalled = TRUE]
    /\ UNCHANGED <<subdomains, uptime_checks, agent_heartbeats, now, status_log, conn,
                   platforms, scheduler, run, probe>>
    /\ UNCHANGED <<active, pools, discovery, fingerprint>>

\* The interval trigger of the uptime_check job fires (main.py 575-582,
\* uptime_checker.py 393-400): with max_instances = 1 the scheduler submits
\* run_checks unless an instance it submitted is still running, and skips the
\* run time otherwise.
FireUptimeCheck ==
    /\ scheduler.running
    /\ now < MaxRuns
    /\ now' = now + 1
    /\ IF run["scheduler"].pc = "none"
       THEN /\ run' = [run EXCEPT !["scheduler"] = [IdleRun EXCEPT !.pc = "list"]]
            /\ UNCHANGED scheduler
       ELSE /\ scheduler' = [scheduler EXCEPT !.skipped = TRUE]
            /\ UNCHANGED run
    /\ UNCHANGED <<subdomains, uptime_checks, agent_heartbeats, status_log, conn,
                   platforms, service, probe>>
    /\ UNCHANGED <<active, pools, discovery, fingerprint>>

\* The scheduler gets to a run time of the job some seconds late. It runs the job
\* if the run time is late by no more than the job's misfire_grace_time, and logs
\* the run time as missed otherwise. Of several run times that are due, coalescing
\* keeps the latest, whose lateness this is.
Misfires(job, late) == late > scheduler.jobs[job].misfire_grace_time

Missed(job, late) ==
    /\ scheduler' = [scheduler EXCEPT !.missed = @ \cup {<<job, late>>}]
    /\ UNCHANGED <<subdomains, uptime_checks, agent_heartbeats, now, status_log, conn,
                   platforms, service, run, probe>>
    /\ UNCHANGED <<active, pools, discovery, fingerprint>>

\* main.py 575-582, uptime_checker.py 393-400: a late run time of uptime_check.
FireUptimeCheckLate(late) ==
    /\ scheduler.running
    /\ IF Misfires("uptime_check", late)
       THEN Missed("uptime_check", late)
       ELSE FireUptimeCheck

\* The interval trigger of the subdomain_discovery job fires (main.py 585-592,
\* uptime_checker.py 403-410).
FireDiscovery ==
    /\ scheduler.running
    /\ pools.discovery < MaxDiscoveries
    /\ scheduler' = IF scheduler.discovering
                    THEN [scheduler EXCEPT !.skipped = TRUE]
                    ELSE [scheduler EXCEPT !.discovering = TRUE]
    /\ UNCHANGED <<subdomains, uptime_checks, agent_heartbeats, now, status_log, conn,
                   platforms, service, run, probe>>
    /\ UNCHANGED <<active, pools, discovery, fingerprint>>

\* main.py 585-592, uptime_checker.py 403-410: a late run time of
\* subdomain_discovery.
FireDiscoveryLate(late) ==
    /\ scheduler.running
    /\ IF Misfires("subdomain_discovery", late)
       THEN Missed("subdomain_discovery", late)
       ELSE FireDiscovery

\* uptime_checker.py 425-433, subdomain_discovery.py 145-166: the discovery job ends,
\* having upserted the known hosts and the hosts it found, through the pool that its
\* own SubdomainDiscovery object has created and that nothing closes.
DiscoveryDone(found) ==
    /\ scheduler.discovering
    /\ scheduler' = [scheduler EXCEPT !.discovering = FALSE]
    /\ subdomains' = Upserted(subdomains, Hosts \cup found, FreshRow)
    /\ platforms' = Upserted(platforms, Hosts \cup found, NoPlatform)
    /\ active' = Activated(active, Hosts \cup found)
    /\ pools' = [pools EXCEPT !.discovery = @ + 1]
    /\ UNCHANGED <<uptime_checks, agent_heartbeats, now, status_log, conn,
                   service, run, probe>>
    /\ UNCHANGED <<discovery, fingerprint>>

\* main.py 612-618, POST /api/checks/run: the handler starts with a discovery.
RunManualChecks ==
    /\ run["manual"].pc = "none"
    /\ now < MaxRuns
    /\ now' = now + 1
    /\ run' = [run EXCEPT !["manual"] = [IdleRun EXCEPT !.pc = "discovery"]]
    /\ UNCHANGED <<subdomains, uptime_checks, agent_heartbeats, status_log, conn,
                   platforms, scheduler, service, probe>>
    /\ UNCHANGED <<active, pools, discovery, fingerprint>>

\* main.py 618-621: the discovery returns and the handler calls run_checks.
ManualDiscoveryDone(found) ==
    /\ run["manual"].pc = "discovery"
    /\ run' = [run EXCEPT !["manual"].pc = "list"]
    /\ subdomains' = Upserted(subdomains, Hosts \cup found, FreshRow)
    /\ platforms' = Upserted(platforms, Hosts \cup found, NoPlatform)
    /\ active' = Activated(active, Hosts \cup found)
    /\ pools' = [pools EXCEPT !.discovery = @ + 1]
    /\ UNCHANGED <<uptime_checks, agent_heartbeats, now, status_log, conn,
                   scheduler, service, probe>>
    /\ UNCHANGED <<discovery, fingerprint>>

\* uptime_checker.py 432-433, main.py 618-621: the discovery raises before it has
\* written anything (its pool cannot be created); run_discovery prints the error
\* and returns, and the handler calls run_checks.
ManualDiscoveryAborts ==
    /\ run["manual"].pc = "discovery"
    /\ run' = [run EXCEPT !["manual"].pc = "done"]
    /\ UNCHANGED <<subdomains, uptime_checks, agent_heartbeats, now, status_log, conn,
                   platforms, scheduler, service, probe>>
    /\ UNCHANGED <<active, pools, discovery, fingerprint>>

ManualDiscoveryFails ==
    /\ run["manual"].pc = "discovery"
    /\ run' = [run EXCEPT !["manual"].pc = "list"]
    /\ UNCHANGED <<subdomains, uptime_checks, agent_heartbeats, now, status_log, conn,
                   platforms, scheduler, service, probe>>
    /\ UNCHANGED <<active, pools, discovery, fingerprint>>

\* uptime_checker.py 212-214, reached from 342 through 223: run_checks asks for the
\* pool, finds self.db_pool to be None and awaits asyncpg.create_pool.
GetDbPool(o) ==
    /\ run[o].pc = "list"
    /\ pools.checker = 0
    /\ run' = [run EXCEPT ![o].pc = "pool"]
    /\ UNCHANGED <<subdomains, uptime_checks, agent_heartbeats, now, status_log, conn,
                   platforms, scheduler, service, probe>>
    /\ UNCHANGED <<active, pools, discovery, fingerprint>>

\* uptime_checker.py 214-219: create_pool returns; the pool is assigned to
\* self.db_pool, in place of whatever another invocation has assigned meanwhile.
CreatePool(o) ==
    /\ run[o].pc = "pool"
    /\ pools' = [pools EXCEPT !.checker = @ + 1]
    /\ run' = [run EXCEPT ![o].pc = "list"]
    /\ UNCHANGED <<subdomains, uptime_checks, agent_heartbeats, now, status_log, conn,
                   platforms, scheduler, service, probe>>
    /\ UNCHANGED <<active, discovery, fingerprint>>

\* uptime_checker.py 340-350: the active hosts are read through the pool.
GetActiveSubdomains(o) ==
    /\ run[o].pc = "list"
    /\ pools.checker > 0
    /\ run' = [run EXCEPT ![o] =
                 IF ActiveSubdomains = <<>> THEN [@ EXCEPT !.pc = "done"]
                 ELSE [@ EXCEPT !.pc = "gather", !.subdomains = ActiveSubdomains]]
    /\ UNCHANGED <<subdomains, uptime_checks, agent_heartbeats, now, status_log, conn,
                   platforms, scheduler, service, probe>>
    /\ UNCHANGED <<active, pools, discovery, fingerprint>>

\* uptime_checker.py 359-367: every host is probed, all probes awaited together.
Gather(o) ==
    /\ run[o].pc = "gather"
    /\ \E cases \in [1..Len(run[o].subdomains) -> NetworkCases] :
          run' = [run EXCEPT ![o] =
                    [@ EXCEPT !.pc = "save", !.idx = 1,
                              !.results = [k \in 1..Len(run[o].subdomains) |->
                                             CheckSubdomain(run[o].subdomains[k], cases[k])]]]
    /\ UNCHANGED <<subdomains, uptime_checks, agent_heartbeats, now, status_log, conn,
                   platforms, scheduler, service, probe>>
    /\ UNCHANGED <<active, pools, discovery, fingerprint>>

\* uptime_checker.py 372, 308-328: an attempt inserts the check record of the next
\* result and save_check_result returns.
SaveCheckResult(o) ==
    /\ run[o].pc = "save"
    /\ uptime_checks' = Append(uptime_checks, ProbeRecord(run[o].results[run[o].idx], now))
    /\ run' = [run EXCEPT ![o].pc = "platform", ![o].attempt = 0]
    /\ UNCHANGED <<subdomains, agent_heartbeats, now, status_log, conn,
                   platforms, scheduler, service, probe>>
    /\ UNCHANGED <<active, pools, discovery, fingerprint>>

\* uptime_checker.py 329-334: an attempt raises before anything is inserted. The
\* last of the attempts ends the loop and the function returns; an earlier one is
\* followed by a sleep and the next attempt.
SaveAttemptEndsRun(o) ==
    /\ run[o].pc = "save"
    /\ run' = [run EXCEPT ![o] =
                 IF @.attempt = MaxRetries - 1
                 THEN [@ EXCEPT !.pc = "done", !.attempt = 0]
                 ELSE [@ EXCEPT !.attempt = @ + 1]]
    /\ UNCHANGED <<subdomains, uptime_checks, agent_heartbeats, now, status_log, conn,
                   platforms, scheduler, service, probe>>
    /\ UNCHANGED <<active, pools, discovery, fingerprint>>

SaveAttemptFails(o) ==
    /\ run[o].pc = "save"
    /\ run' = [run EXCEPT ![o] =
                 IF @.attempt = MaxRetries - 1
                 THEN [@ EXCEPT !.pc = "platform", !.attempt = 0]
                 ELSE [@ EXCEPT !.attempt = @ + 1]]
    /\ UNCHANGED <<subdomains, uptime_checks, agent_heartbeats, now, status_log, conn,
                   platforms, scheduler, service, probe>>
    /\ UNCHANGED <<active, pools, discovery, fingerprint>>

\* uptime_checker.py 373-380, 296-306: the host's platform columns are updated; the
\* loop goes to the next result or ends.
UpdateSubdomainPlatform(o) ==
    /\ run[o].pc = "platform"
    /\ LET result == run[o].results[run[o].idx]
       IN  platforms' = [h \in DOMAIN platforms |->
                            IF h = result.subdomain
                            THEN [platform |-> Some(result.platform),
                                  last_platform_check |-> Some(now)]
                            ELSE platforms[h]]
    /\ run' = [run EXCEPT ![o] =
                 IF @.idx < Len(@.results)
                 THEN [@ EXCEPT !.pc = "save", !.idx = @ + 1]
                 ELSE [@ EXCEPT !.pc = "done"]]
    /\ UNCHANGED <<subdomains, uptime_checks, agent_heartbeats, now, status_log, conn,
                   scheduler, service, probe>>
    /\ UNCHANGED <<active, pools, discovery, fingerprint>>

\* uptime_checker.py 384, main.py 623: run_checks has returned; the scheduler
\* releases the instance, or the endpoint answers.
ReturnFromRun(o) ==
    /\ run[o].pc = "done"
    /\ run' = [run EXCEPT ![o] = IdleRun]
    /\ UNCHANGED <<subdomains, uptime_checks, agent_heartbeats, now, status_log, conn,
                   platforms, scheduler, service, probe>>
    /\ UNCHANGED <<active, pools, discovery, fingerprint>>

\* ---------------------------------------------------------- specifications
Next ==
    \E c \in Conns :
       \/ ReceiveAny(c)
       \/ RejectAny(c)
       \/ UpsertHeartbeat(c)
       \/ InsertCheck(c)
       \/ FetchRow(c)
       \/ FetchRecent(c)
       \/ ExecuteUpdate(c)
       \/ Commit(c)
       \/ Rollback(c)
       \/ Respond(c)

Spec == Init /\ [][Next]_vars

\* The state machine fed by one source, one report at a time, with no store failure.
NextSM ==
    \/ ReceiveInTurn(1)
    \/ UpsertHeartbeat(1)
    \/ InsertCheck(1)
    \/ FetchRow(1)
    \/ FetchRecent(1)
    \/ ExecuteUpdate(1)
    \/ Commit(1)
    \/ Respond(1)

SpecSM == Init /\ [][NextSM]_vars

\* The ingest handler alone on one connection: any batch, any failure.
NextIngest ==
    \/ ReceiveBatch(1)
    \/ RejectBatch(1)
    \/ UpsertHeartbeat(1)
    \/ InsertCheck(1)
    \/ InsertFails(1)
    \/ FetchRow(1)
    \/ FetchRecent(1)
    \/ ExecuteUpdate(1)
    \/ Commit(1)
    \/ Rollback(1)
    \/ Respond(1)

SpecIngest == Init /\ [][NextIngest]_vars

\* The state machine fed by one agent whose timestamps need not be in order.
NextStamps ==
    \/ ReceiveStamped(1)
    \/ UpsertHeartbeat(1)
    \/ InsertCheck(1)
    \/ FetchRow(1)
    \/ FetchRecent(1)
    \/ ExecuteUpdate(1)
    \/ Commit(1)
    \/ Respond(1)

SpecStamps == Init /\ [][NextStamps]_vars

\* The web process: the scheduler started over the API, and manual requests.
NextProber ==
    \/ StartScheduler
    \/ FireUptimeCheck
    \/ FireDiscovery
    \/ \E found \in SUBSET Discoverable : DiscoveryDone(found)
    \/ RunManualChecks
    \/ \E found \in SUBSET Discoverable : ManualDiscoveryDone(found)
    \/ ManualDiscoveryFails
    \/ \E o \in Origins :
          \/ GetDbPool(o)
          \/ CreatePool(o)
          \/ GetActiveSubdomains(o)
          \/ Gather(o)
          \/ SaveCheckResult(o)
          \/ UpdateSubdomainPlatform(o)
          \/ ReturnFromRun(o)

SpecProber == Init /\ [][NextProber]_vars

\* The scheduler service: its scheduler, the jobs it runs, the signals it gets.
NextService ==
    \/ StartService
    \/ Signal
    \/ FireUptimeCheck
    \/ FireDiscovery
    \/ \E found \in SUBSET Discoverable : DiscoveryDone(found)
    \/ GetDbPool("scheduler")
    \/ CreatePool("scheduler")
    \/ GetActiveSubdomains("scheduler")
    \/ Gather("scheduler")
    \/ SaveCheckResult("scheduler")
    \/ UpdateSubdomainPlatform("scheduler")
    \/ ReturnFromRun("scheduler")

SpecService == Init /\ [][NextService]_vars

\* Either scheduler, getting to the run times of its jobs on time or late.
NextMisfire ==
    \/ StartScheduler
    \/ StartService
    \/ FireUptimeCheck
    \/ \E late \in Lateness["uptime_check"] : FireUptimeCheckLate(late)
    \/ FireDiscovery
    \/ \E late \in Lateness["subdomain_discovery"] : FireDiscoveryLate(late)
    \/ \E found \in SUBSET Discoverable : DiscoveryDone(found)
    \/ GetDbPool("scheduler")
    \/ CreatePool("scheduler")
    \/ GetActiveSubdomains("scheduler")
    \/ Gather("scheduler")
    \/ SaveCheckResult("scheduler")
    \/ UpdateSubdomainPlatform("scheduler")
    \/ ReturnFromRun("scheduler")

SpecMisfire == Init /\ [][NextMisfire]_vars

\* Scheduled probe runs writing to a store whose inserts may fail.
NextSave ==
    \/ StartService
    \/ FireUptimeCheck
    \/ GetDbPool("scheduler")
    \/ CreatePool("scheduler")
    \/ GetActiveSubdomains("scheduler")
    \/ Gather("scheduler")
    \/ SaveCheckResult("scheduler")
    \/ SaveAttemptFails("scheduler")
    \/ UpdateSubdomainPlatform("scheduler")
    \/ ReturnFromRun("scheduler")

SpecSave == Init /\ [][NextSave]_vars

\* Manual check cycles alone, one request at a time, the discovery of a cycle
\* succeeding or failing.
NextManual ==
    \/ RunManualChecks
    \/ \E found \in SUBSET Discoverable : ManualDiscoveryDone(found)
    \/ ManualDiscoveryFails
    \/ GetDbPool("manual")
    \/ CreatePool("manual")
    \/ GetActiveSubdomains("manual")
    \/ Gather("manual")
    \/ SaveCheckResult("manual")
    \/ UpdateSubdomainPlatform("manual")
    \/ ReturnFromRun("manual")

SpecManual == Init /\ [][NextManual]_vars

\* The two writers of the check log side by side: an agent reporting on one host
\* in turn, and the scheduler's probe runs.
NextBothWriters ==
    \/ ReceiveBesideProber(1)
    \/ UpsertHeartbeat(1)
    \/ InsertCheck(1)
    \/ FetchRow(1)
    \/ FetchRecent(1)
    \/ ExecuteUpdate(1)
    \/ Commit(1)
    \/ Respond(1)
    \/ StartScheduler
    \/ FireUptimeCheck
    \/ GetDbPool("scheduler")
    \/ CreatePool("scheduler")
    \/ GetActiveSubdomains("scheduler")
    \/ Gather("scheduler")
    \/ SaveCheckResult("scheduler")
    \/ UpdateSubdomainPlatform("scheduler")
    \/ ReturnFromRun("scheduler")

SpecBothWriters == Init /\ [][NextBothWriters]_vars

\* Reports, probe runs and discovery runs one after the other: each begins when
\* nothing else is under way.
Quiet ==
    /\ \A c \in Conns : conn[c].pc = "idle"
    /\ \A o \in Origins : run[o].pc = "none"
    /\ ~scheduler.discovering

\* The uptime_check job is run (main.py 575-582) while the log is short.
ProbeRunInTurn ==
    /\ Quiet
    /\ scheduler.running
    /\ Len(uptime_checks) <= MaxLoggedChecks
    /\ run' = [run EXCEPT !["scheduler"] = [IdleRun EXCEPT !.pc = "list"]]
    /\ UNCHANGED <<subdomains, uptime_checks, agent_heartbeats, now, status_log, conn,
                   platforms, scheduler, service, probe>>
    /\ UNCHANGED <<active, pools, discovery, fingerprint>>

NextInTurn ==
    \/ Quiet /\ ReceiveBesideProber(1)
    \/ UpsertHeartbeat(1)
    \/ InsertCheck(1)
    \/ FetchRow(1)
    \/ FetchRecent(1)
    \/ ExecuteUpdate(1)
    \/ Commit(1)
    \/ Respond(1)
    \/ StartScheduler
    \/ ProbeRunInTurn
    \/ GetDbPool("scheduler")
    \/ CreatePool("scheduler")
    \/ GetActiveSubdomains("scheduler")
    \/ Gather("scheduler")
    \/ SaveCheckResult("scheduler")
    \/ UpdateSubdomainPlatform("scheduler")
    \/ ReturnFromRun("scheduler")
    \/ Quiet /\ FireDiscovery
    \/ \E found \in SUBSET Discoverable : DiscoveryDone(found)

SpecInTurn == Init /\ [][NextInTurn]_vars

\* ------------------------------------------------------------ discover_all
\* subdomain_discovery.py 58-82: what the fetch of the domain's page can meet, and
\* the hosts of the domain that the page links to.
HtmlFetches ==
    [kind : {"ok", "non200"}, links : SUBSET Discoverable]
       \cup [kind : {"exception", "timeout"}, links : {{}}]

\* subdomain_discovery.py 113-127: a candidate answers HEAD with a status below 400
\* over https or http, answers with another status, or cannot be reached.
ProbeOutcomes == {"ok", "status400", "error"}

\* subdomain_discovery.py 90-99: the seed list and the prefixed names.
Candidates == Hosts \cup Discoverable

\* subdomain_discovery.py 58-82: only a page fetched with status 200 is scraped;
\* anything raised is caught here.
DiscoverFromWebsite(html) == IF html.kind = "ok" THEN html.links ELSE {}

\* subdomain_discovery.py 84-111: the probes are gathered with return_exceptions;
\* the candidates that answered are kept.
CheckCommonSubdomains(probes) == {h \in DOMAIN probes : probes[h] = "ok"}

\* subdomain_discovery.py 145-166: found_subdomains when save_subdomains_to_db is
\* called.
DiscoverAllOrNothing(html, probes) ==
    IF html.kind = "ok"
    THEN Hosts \cup DiscoverFromWebsite(html) \cup CheckCommonSubdomains(probes)
    ELSE {}

DiscoverAll(html, probes) ==
    Hosts \cup DiscoverFromWebsite(html) \cup CheckCommonSubdomains(probes)

\* One call of discover_all, on any registry, for everything the page fetch and the
\* probes can meet.
InitDiscovery ==
    /\ \E registered \in SUBSET Candidates :
          /\ subdomains = [h \in registered |-> FreshRow]
          /\ platforms = [h \in registered |-> NoPlatform]
          /\ active \in [registered -> BOOLEAN]
    /\ uptime_checks = <<>>
    /\ agent_heartbeats = NoRows
    /\ now = 0
    /\ status_log = <<>>
    /\ conn = [c \in Conns |-> IdleConn]
    /\ scheduler = StoppedScheduler
    /\ service = NoService
    /\ run = [o \in Origins |-> IdleRun]
    /\ probe = NoProbe
    /\ pools = NoPools
    /\ discovery \in [html : {Some(f) : f \in HtmlFetches},
                       probes : [Candidates -> ProbeOutcomes], found : {None}]
    /\ fingerprint = NoFingerprint

\* subdomain_discovery.py 145-166, 129-143: the call runs, upserts what it found
\* and returns it.
Discover ==
    /\ discovery.html # None
    /\ discovery.found = None
    /\ LET found == DiscoverAll(discovery.html[1], discovery.probes)
       IN  /\ discovery' = [discovery EXCEPT !.found = Some(found)]
           /\ subdomains' = Upserted(subdomains, found, FreshRow)
           /\ platforms' = Upserted(platforms, found, NoPlatform)
           /\ active' = Activated(active, found)
    /\ pools' = [pools EXCEPT !.discovery = @ + 1]
    /\ UNCHANGED <<uptime_checks, agent_heartbeats, now, status_log, conn,
                   scheduler, service, run, probe, fingerprint>>

SpecDiscovery == InitDiscovery /\ [][Discover]_vars

\* ------------------------------------------------------------ the alerts view
\* main.py 115-155: the committed rows of the active hosts, a missing status read as
\* UNKNOWN.
get_subdomains_with_stats ==
    [h \in {g \in DOMAIN subdomains : active[g]} |->
       [status |-> subdomains[h].current_status, is_flapping |-> subdomains[h].is_flapping]]

\* main.py 303-319, GET /alerts: the hosts that are not UP, and the four counts.
alerts_page ==
    LET all_subdomains == get_subdomains_with_stats
        alert_subdomains == {h \in DOMAIN all_subdomains : all_subdomains[h].status # "UP"}
        Count(status) == Cardinality({h \in alert_subdomains : all_subdomains[h].status = status})
    IN  [subdomains |-> alert_subdomains,
         total_alerts |-> Cardinality(alert_subdomains),
         down_count |-> Count("DOWN"),
         flapping_count |-> Count("FLAPPING"),
         unknown_count |-> Count("UNKNOWN")]

\* ------------------------------------------------------------- agent status
\* main.py 848: the window, in minutes.
OnlineWindow == 10

\* main.py 835-858, GET /api/agent-status: one SELECT over the committed heartbeat
\* rows, NOW() being the time of the request.
get_agent_status_inclusive ==
    [l \in DOMAIN agent_heartbeats |->
       LET minutes == now - agent_heartbeats[l].last_seen
       IN  [minutes_since_last_seen |-> minutes,
            status |-> IF minutes <= OnlineWindow THEN "online" ELSE "offline"]]

get_agent_status ==
    [l \in DOMAIN agent_heartbeats |->
       LET minutes == now - agent_heartbeats[l].last_seen
       IN  [minutes_since_last_seen |-> minutes,
            status |-> IF minutes < OnlineWindow THEN "online" ELSE "offline"]]

\* A minute passes on the store's clock.
Tick ==
    /\ now < MaxClock
    /\ now' = now + 1
    /\ UNCHANGED <<subdomains, uptime_checks, agent_heartbeats, status_log, conn>>
    /\ UNCHANGED prober_vars

\* An agent reports with nothing to tell but that it is there.
ReceiveFromAgent(c) ==
    /\ now < MaxClock
    /\ \E location \in {"EU", "sg"} : Receive(c, location, <<>>)

\* The agents, the clock and the readers of the agent status.
NextAgents ==
    \/ ReceiveFromAgent(1)
    \/ UpsertHeartbeat(1)
    \/ Commit(1)
    \/ Rollback(1)
    \/ Respond(1)
    \/ Tick

SpecAgents == Init /\ [][NextAgents]_vars

\* One call of detect_platform, on any headers and body.
HeaderItems ==
    {<<"CF-Ray", "8a1">>, <<"Server", "nginx/1.18.0">>, <<"server", "gov.ph">>,
     <<"X-Powered-By", "PHP/8.1">>, <<"X-Vercel-Id", "1">>, <<"X-XSS-Protection", "1">>,
     <<"x-bettergov", "1">>, <<"x-request-id", "1">>}

Bodies == {"", "<link href=/wp-content/a.css>", "Powered by Drupal"}

InitFingerprint ==
    /\ subdomains = [h \in Hosts |-> FreshRow]
    /\ uptime_checks = <<>>
    /\ agent_heartbeats = NoRows
    /\ now = 0
    /\ status_log = <<>>
    /\ conn = [c \in Conns |-> IdleConn]
    /\ platforms = [h \in Hosts |-> NoPlatform]
    /\ scheduler = StoppedScheduler
    /\ service = NoService
    /\ run = [o \in Origins |-> IdleRun]
    /\ probe = NoProbe
    /\ active = [h \in Hosts |-> TRUE]
    /\ pools = NoPools
    /\ discovery = NoDiscovery
    /\ \E n \in 0..MaxHeaders :
          fingerprint \in [headers : [1..n -> HeaderItems], response_text : Bodies,
                           label : {None}]

\* uptime_checker.py 23-205: the call returns its label.
Detect ==
    /\ fingerprint.label = None
    /\ fingerprint' = [fingerprint EXCEPT
                         !.label = Some(detect_platform(fingerprint.headers,
                                                        fingerprint.response_text))]
    /\ UNCHANGED <<subdomains, uptime_checks, agent_heartbeats, now, status_log, conn,
                   platforms, scheduler, service, run, probe, active, pools, discovery>>

SpecFingerprint == InitFingerprint /\ [][Detect]_vars

\* One call of check_subdomain, for everything the two attempts can meet.
InitProbe ==
    /\ subdomains = [h \in Hosts |-> FreshRow]
    /\ uptime_checks = <<>>
    /\ agent_heartbeats = NoRows
    /\ now = 0
    /\ status_log = <<>>
    /\ conn = [c \in Conns |-> IdleConn]
    /\ platforms = [h \in Hosts |-> NoPlatform]
    /\ scheduler = StoppedScheduler
    /\ service = NoService
    /\ run = [o \in Origins |-> IdleRun]
    /\ probe \in [subdomain : {"a"}, attempts : Attempts \X Attempts, result : {None}]
    /\ active = [h \in Hosts |-> TRUE]
    /\ pools = NoPools
    /\ discovery = NoDiscovery
    /\ fingerprint = NoFingerprint

\* uptime_checker.py 242-294: the call runs and returns its result.
Probe ==
    /\ probe.attempts # <<>>
    /\ probe.result = None
    /\ probe' = [probe EXCEPT !.result = Some(CheckSubdomain(probe.subdomain, probe.attempts))]
    /\ UNCHANGED <<subdomains, uptime_checks, agent_heartbeats, now, status_log, conn,
                   platforms, scheduler, service, run>>
    /\ UNCHANGED <<active, pools, discovery, fingerprint>>

SpecProbe == InitProbe /\ [][Probe]_vars

\* ------------------------------------------------------ reading the state
U == TRUE
D == FALSE

\* The outcomes of host h among `checks`, oldest first.
OutcomesOf(checks, h) ==
    LET sel == SelectSeq(checks, LAMBDA r : r.subdomain = h)
    IN  [k \in 1..Len(sel) |-> sel[k].up]

\* The outcomes applied to h so far, as connection c sees them.
SeenOuts(c, h) == OutcomesOf(VisibleChecks(c), h)

\* Connection c is between two runs of the state machine: every outcome it sees
\* has been applied.
AfterStep(c) == conn[c].pc \in {"idle", "insert", "commit", "respond"}

RECURSIVE TrailingRun(_, _)
TrailingRun(outs, v) ==
    IF outs = <<>> \/ outs[Len(outs)] # v THEN 0
    ELSE 1 + TrailingRun(SubSeq(outs, 1, Len(outs) - 1), v)

\* outs[j-2..j] are all v
RunOfThreeAt(outs, j, v) ==
    /\ 3 <= j /\ j <= Len(outs)
    /\ \A k \in (j - 2)..j : outs[k] = v

UpsInWindow(outs) ==
    Cardinality({k \in 1..Len(outs) : k > Len(outs) - FlapWindow /\ outs[k]})

TransitionsOf(h) == SelectSeq(status_log, LAMBDA t : t.subdomain = h)

\* ------------------------------------------------------------------ claims

\* C1 (as stated): whenever current_status = UP after a step, the last three
\* outcomes are all up, or the run went through FLAPPING and left it for UP.
C1_UpMeansLastThreeUp ==
    \A c \in Conns, h \in Hosts :
       (AfterStep(c) /\ ViewRow(c, h).current_status = "UP") =>
          \/ RunOfThreeAt(SeenOuts(c, h), Len(SeenOuts(c, h)), U)
          \/ \E i, j \in 1..Len(TransitionsOf(h)) :
                /\ i < j
                /\ TransitionsOf(h)[i].to = "FLAPPING"
                /\ TransitionsOf(h)[j].from = "FLAPPING"
                /\ TransitionsOf(h)[j].to = "UP"

\* C1 (amended): whenever current_status = UP after a step, the outcomes applied
\* contain three consecutive ups with no three consecutive downs after them.
C1_UpAfterThreeUpsNoThreeDownsSince ==
    \A c \in Conns, h \in Hosts :
       (AfterStep(c) /\ ViewRow(c, h).current_status = "UP") =>
          \E j \in 1..Len(SeenOuts(c, h)) :
             /\ RunOfThreeAt(SeenOuts(c, h), j, U)
             /\ \A k \in (j + 1)..Len(SeenOuts(c, h)) : ~RunOfThreeAt(SeenOuts(c, h), k, D)

\* C1 witness: a host still UP whose latest outcome is a down.
C1_UpSurvivesDown ==
    \E h \in Hosts :
       /\ \A c \in Conns : conn[c].pc = "idle"
       /\ subdomains[h].current_status = "UP"
       /\ TrailingRun(OutcomesOf(uptime_checks, h), D) >= 1

\* C2: current_status = FLAPPING implies that there are five outcomes and the five
\* most recent contain 2 or 3 ups.
C2_FlappingMeansMixedWindow ==
    \A c \in Conns, h \in Hosts :
       (AfterStep(c) /\ ViewRow(c, h).current_status = "FLAPPING") =>
          \A recent_checks \in RecentChecks(VisibleChecks(c), h) :
             /\ Len(recent_checks) = FlapWindow
             /\ CountUps(recent_checks) \in FlapMinUps..FlapMaxUps

\* C3: after D, D, D, U, U, U on a fresh host the status is UP, is_flapping is
\* false, and last_status_change was set twice: UNKNOWN to DOWN, then DOWN to UP.
C3_DownThenUpEndsUp ==
    \A c \in Conns, h \in Hosts :
       (AfterStep(c) /\ SeenOuts(c, h) = <<D, D, D, U, U, U>>) =>
          /\ ViewRow(c, h).current_status = "UP"
          /\ ~ViewRow(c, h).is_flapping
          /\ TransitionsOf(h) = <<[subdomain |-> h, from |-> "UNKNOWN", to |-> "DOWN"],
                                  [subdomain |-> h, from |-> "DOWN", to |-> "UP"]>>
          /\ ViewRow(c, h).last_status_change > 0

\* C4: after U, U, U, U, U, D, D, D on a fresh host the status is DOWN and
\* is_flapping is false.
C4_FiveUpThreeDownEndsDown ==
    \A c \in Conns, h \in Hosts :
       (AfterStep(c) /\ SeenOuts(c, h) = <<U, U, U, U, U, D, D, D>>) =>
          /\ ViewRow(c, h).current_status = "DOWN"
          /\ ~ViewRow(c, h).is_flapping

\* C5: both counters of every row are non-negative and at most one is non-zero,
\* in the committed rows and in the rows a transaction has written.
C5_CountersExclusive ==
    \A c \in Conns, h \in Hosts :
       /\ ViewRow(c, h).consecutive_up_count >= 0
       /\ ViewRow(c, h).consecutive_down_count >= 0
       /\ ~(ViewRow(c, h).consecutive_up_count > 0 /\ ViewRow(c, h).consecutive_down_count > 0)

\* C5 witness: a committed row whose down counter runs after ups were counted.
C5_CounterSwitched ==
    \E h \in Hosts :
       /\ subdomains[h].consecutive_down_count >= 2
       /\ subdomains[h].consecutive_up_count = 0
       /\ \E k \in 1..Len(OutcomesOf(uptime_checks, h)) : OutcomesOf(uptime_checks, h)[k] = U

\* C6: exactly three identical outcomes on a fresh host give the matching status,
\* DOWN for D, D, D and UP for U, U, U, with is_flapping false.
C6_ThreeIdenticalOutcomes ==
    \A c \in Conns, h \in Hosts :
       /\ (AfterStep(c) /\ SeenOuts(c, h) = <<D, D, D>>) =>
             (ViewRow(c, h).current_status = "DOWN" /\ ~ViewRow(c, h).is_flapping)
       /\ (AfterStep(c) /\ SeenOuts(c, h) = <<U, U, U>>) =>
             (ViewRow(c, h).current_status = "UP" /\ ~ViewRow(c, h).is_flapping)

\* C6 witness: three downs committed and the row DOWN.
C6_ThreeDownsCommitted ==
    \E h \in Hosts :
       /\ OutcomesOf(uptime_checks, h) = <<D, D, D>>
       /\ subdomains[h].current_status = "DOWN"
       /\ subdomains[h].consecutive_down_count = 3

\* C7: with at most two outcomes applied to a fresh host, the status is still
\* UNKNOWN and is_flapping is false.
C7_TwoOutcomesStayUnknown ==
    \A c \in Conns, h \in Hosts :
       (AfterStep(c) /\ Len(SeenOuts(c, h)) <= 2) =>
          (ViewRow(c, h).current_status = "UNKNOWN" /\ ~ViewRow(c, h).is_flapping)

\* C7 witness: two ups committed, counter at two.
C7_TwoUpsCommitted ==
    \E h \in Hosts :
       /\ OutcomesOf(uptime_checks, h) = <<U, U>>
       /\ subdomains[h].consecutive_up_count = 2

\* C8: after a step that finds at least five outcomes, the five most recent with 2
\* or 3 ups, is_flapping is true and the status is FLAPPING, whatever the counters.
C8_FlapDetectionFirst ==
    \A c \in Conns, h \in Hosts :
       (/\ AfterStep(c)
        /\ Len(SeenOuts(c, h)) >= FlapWindow
        /\ UpsInWindow(SeenOuts(c, h)) \in FlapMinUps..FlapMaxUps) =>
          (ViewRow(c, h).is_flapping /\ ViewRow(c, h).current_status = "FLAPPING")

\* C8 witness: a row FLAPPING although three ups in a row have been counted.
C8_FlappingDespiteThreeUps ==
    \E h \in Hosts :
       /\ subdomains[h].current_status = "FLAPPING"
       /\ subdomains[h].is_flapping
       /\ subdomains[h].consecutive_up_count >= StrikeThreshold

\* C9: a step changes the status to UP only on the third or a later consecutive
\* up, and to DOWN only on the third or a later consecutive down.
C9_ThreeStrikeStep ==
    \A c \in Conns, h \in Hosts :
       (/\ conn[c].pc = "update"
        /\ conn[c].results[conn[c].idx].subdomain = h
        /\ conn'[c].pc \in {"insert", "commit"}) =>
          /\ (ViewRow(c, h)'.current_status = "UP" /\ ViewRow(c, h).current_status # "UP")
                => TrailingRun(SeenOuts(c, h), U) >= 3
          /\ (ViewRow(c, h)'.current_status = "DOWN" /\ ViewRow(c, h).current_status # "DOWN")
                => TrailingRun(SeenOuts(c, h), D) >= 3

C9_ThreeStrikeRule == [][C9_ThreeStrikeStep]_vars

\* C9 witness: a host that was moved to DOWN and later to UP.
C9_MovedDownThenUp ==
    \E h \in Hosts : \E i, j \in 1..Len(TransitionsOf(h)) :
       /\ i < j
       /\ TransitionsOf(h)[i].to = "DOWN"
       /\ TransitionsOf(h)[j].to = "UP"
       /\ subdomains[h].current_status = "UP"

\* The store after one report has been processed alone, start to commit, from the
\* store `st` = [rows, checks]: one state per choice the flap-detection read has.
SerialStep(st, result, location) ==
    LET host == result.subdomain
        checks == Append(st.checks, CheckRecord(result, location))
    IN  IF host \notin DOMAIN st.rows
        THEN {[rows |-> st.rows, checks |-> checks]}
        ELSE {[rows |-> [st.rows EXCEPT ![host] =
                            UpdatedRow(@, ThreeStrike(@, recent_checks, result.up), 0)],
               checks |-> checks] :
                 recent_checks \in RecentChecks(checks, host)}

RECURSIVE SerialReport(_, _, _)
SerialReport(sts, results, location) ==
    IF results = <<>> THEN sts
    ELSE SerialReport(UNION {SerialStep(st, Head(results), location) : st \in sts},
                      Tail(results), location)

StateFields(row) ==
    <<row.current_status, row.consecutive_up_count, row.consecutive_down_count,
      row.is_flapping>>

\* C10: when two reports have both been committed on a fresh store, the counters,
\* is_flapping and current_status of every host are those of processing the two
\* reports one after the other, in one order or the other.
C10_OverlappingReportsSerialized ==
    (/\ \A c \in Conns : conn[c].pc = "respond" /\ conn[c].response = "success"
     /\ Len(uptime_checks) = Len(conn[1].results) + Len(conn[2].results)) =>
       LET fresh == {[rows |-> [h \in Hosts |-> FreshRow], checks |-> <<>>]}
           first(c) == SerialReport(fresh, conn[c].results, conn[c].location)
           then(sts, c) == SerialReport(sts, conn[c].results, conn[c].location)
       IN  \E st \in then(first(1), 2) \cup then(first(2), 1) :
              \A h \in Hosts : StateFields(subdomains[h]) = StateFields(st.rows[h])

\* The store's tables.
Store == <<subdomains, uptime_checks, agent_heartbeats>>

NothingPending(k) ==
    k.tx_checks = <<>> /\ k.tx_rows = NoRows /\ ~k.tx_heartbeat

\* C12: a report whose upper-cased location is none of EU, PH, SG opens no
\* transaction; the step that answers "rejected" and the handler's return after it
\* change no heartbeat row, no check record and no subdomain row, and leave
\* nothing pending.
C12_RejectStep ==
    \A c \in Conns :
       /\ InTransaction(c)' => conn'[c].location \in AllowedLocations
       /\ (conn[c].pc = "idle" /\ conn'[c].response = "rejected") =>
             (UNCHANGED Store /\ conn'[c].pc = "respond" /\ NothingPending(conn'[c]))
       /\ (conn[c].response = "rejected" /\ conn'[c] # conn[c]) =>
             (UNCHANGED Store /\ conn'[c] = IdleConn)

C12_RejectedLeavesStore == [][C12_RejectStep]_vars

\* C12 witness: a report rejected on a store that holds a heartbeat and checks.
C12_RejectedOnUsedStore ==
    \E c \in Conns :
       /\ conn[c].response = "rejected"
       /\ Len(uptime_checks) > 0
       /\ DOMAIN agent_heartbeats # {}

\* C13: a step of a handler inside its transaction changes the store only when it
\* commits the whole batch with the answer "success", which it gives only to a
\* batch of well-formed entries; a step that ends in the answer "error" changes
\* nothing in the store and leaves nothing pending, and neither does the return
\* after it.
C13_FailureStep ==
    \A c \in Conns :
       /\ (InTransaction(c) /\ conn'[c] # conn[c]) =>
             /\ conn'[c].response # "success" => UNCHANGED Store
             /\ conn'[c].response = "error" =>
                   (conn'[c].pc = "respond" /\ NothingPending(conn'[c]))
             /\ conn'[c].response = "success" =>
                   \A k \in 1..Len(conn[c].results) : WellFormed(conn[c].results[k])
       /\ (conn[c].response = "error" /\ conn'[c] # conn[c]) =>
             (UNCHANGED Store /\ conn'[c] = IdleConn)

C13_BatchAllOrNothing == [][C13_FailureStep]_vars

\* C13 witness: a batch that failed on its second, malformed entry after the first
\* had been inserted and run through the state machine; the store is as at start.
C13_FailedOnSecondEntry ==
    \E c \in Conns :
       /\ conn[c].response = "error"
       /\ conn[c].idx = 2
       /\ WellFormed(conn[c].results[1])
       /\ conn[c].results[1].subdomain \in Hosts
       /\ ~WellFormed(conn[c].results[2])
       /\ status_log = <<>>
       /\ uptime_checks = <<>>
       /\ agent_heartbeats = NoRows
       /\ subdomains = [h \in Hosts |-> FreshRow]

\* C14: every committed check record is of a host that has a registry row.
C14_ChecksReferenceRegistry ==
    \A k \in 1..Len(uptime_checks) : uptime_checks[k].subdomain \in DOMAIN subdomains

\* C15: whenever the state machine is about to read the last five outcomes, every
\* answer the store can give holds the record the same step has just appended.
C15_ReadIncludesAppended ==
    \A c \in Conns :
       conn[c].pc = "fetchrecent" =>
          \A S \in RecentSets(VisibleChecks(c), conn[c].results[conn[c].idx].subdomain) :
             Len(VisibleChecks(c)) \in S

\* C16: while a result of a batch is applied to a host's state machine, every
\* result of the batch applied to that host before it has a timestamp that is
\* not later.
C16_AppliedInTimestampOrder ==
    \A c \in Conns :
       conn[c].pc \in {"fetchrow", "fetchrecent", "update"} =>
          \A j \in 1..(conn[c].idx - 1) :
             conn[c].results[j].subdomain = conn[c].results[conn[c].idx].subdomain =>
                conn[c].results[j].timestamp <= conn[c].results[conn[c].idx].timestamp

\* C18: every result check_subdomain returns with up = true has a status code,
\* and that status code is below 500.
C18_UpImpliesStatusBelow500 ==
    probe.result # None =>
       (probe.result[1].up =>
           /\ probe.result[1].status_code # None
           /\ probe.result[1].status_code[1] < 500)

\* C18 witness: up with a 404 from http, after https had recorded a 500 and then
\* raised.
C18_UpOn404AfterHttpsError ==
    /\ probe.result # None
    /\ probe.attempts[1].kind = "response_then_error"
    /\ probe.attempts[1].status = 500
    /\ probe.attempts[2].kind = "response"
    /\ probe.result[1].up
    /\ probe.result[1].status_code = Some(404)

\* C19: when both attempts end in a timeout or a connection error, the call returns
\* a result with up = false, no status code, no response time and an error message.
C19_UnreachableGivesDownRecord ==
    (/\ probe.result # None
     /\ \A i \in 1..2 : probe.attempts[i].kind \in {"timeout", "connector_error"}) =>
       /\ ~probe.result[1].up
       /\ probe.result[1].status_code = None
       /\ probe.result[1].response_time_ms = None
       /\ probe.result[1].error_message # None

\* C19 witness: https timed out, http could not connect, and the call returned.
C19_TimeoutThenConnectionFailed ==
    /\ probe.result # None
    /\ probe.attempts[1].kind = "timeout"
    /\ probe.attempts[2].kind = "connector_error"
    /\ probe.result[1].error_message = Some("Connection failed")

\* C11: at most one invocation of run_checks is in flight, whoever started it.
C11_OneProbeRunInFlight ==
    Cardinality({o \in Origins : InFlight(o)}) <= 1

\* C17: when the only prober run so far has completed, every host it probed has had
\* the outcome applied to its state machine: one up counted and no down for a host
\* found up, one down counted and no up for a host found down.
C17_ProbedOutcomesApplied ==
    \A o \in Origins :
       (run[o].pc = "done" /\ Len(uptime_checks) = Len(run[o].results)) =>
          \A k \in 1..Len(run[o].results) :
             LET row == subdomains[run[o].results[k].subdomain]
             IN  IF run[o].results[k].up
                 THEN row.consecutive_up_count = 1 /\ row.consecutive_down_count = 0
                 ELSE row.consecutive_down_count = 1 /\ row.consecutive_up_count = 0

\* C20: once the service has received a termination signal, no step starts a probe
\* run or a discovery.
C20_NoJobStartStep ==
    service.signalled =>
       /\ \A o \in Origins : run[o].pc = "none" => run'[o].pc = "none"
       /\ ~scheduler.discovering => ~scheduler'.discovering

C20_NoJobAfterSignal == [][C20_NoJobStartStep]_vars

\* C21: a run time of the probe job that the scheduler gets to no more than 30
\* seconds late, and a run time of the discovery job that it gets to no more than
\* 300 seconds late, is never dropped as missed.
ProbeGrace == 30
DiscoveryGrace == 300

C21_LateRunTimeWithinGraceNotMissed ==
    \A e \in scheduler.missed :
       /\ e[1] = "uptime_check" => e[2] > ProbeGrace
       /\ e[1] = "subdomain_discovery" => e[2] > DiscoveryGrace

\* C22: the step that accepts a report of N entries appends exactly N check
\* records, entry by entry and each tagged with the upper-cased location of the
\* report, leaves the heartbeat row of that location with status active, and answers
\* success with received = N; and no step leaves a heartbeat row of a location
\* other than EU, PH and SG.
C22_AcceptStep ==
    /\ DOMAIN agent_heartbeats' \subseteq AllowedLocations
    /\ \A c \in Conns :
          (conn[c].pc = "commit" /\ conn'[c].response = "success") =>
             LET results == conn[c].results
                 N == Len(results)
                 location == Upper(BatchLocation)
             IN  /\ \A k \in 1..N : WellFormed(results[k])
                 /\ Len(uptime_checks') = Len(uptime_checks) + N
                 /\ SubSeq(uptime_checks', 1, Len(uptime_checks)) = uptime_checks
                 /\ \A k \in 1..N :
                       uptime_checks'[Len(uptime_checks) + k] =
                          CheckRecord(results[k], location)
                 /\ location \in DOMAIN agent_heartbeats'
                 /\ agent_heartbeats'[location].status = "active"
                 /\ DOMAIN agent_heartbeats' = DOMAIN agent_heartbeats \cup {location}
                 /\ conn'[c].received = N

C22_AcceptedReportStored == [][C22_AcceptStep]_vars

\* C22 witness: a report of two entries sent as "sg" has been accepted; both records
\* are stored under SG and the answer carries received = 2.
C22_TwoEntriesAcceptedAsSG ==
    /\ conn[1].pc = "respond"
    /\ conn[1].response = "success"
    /\ conn[1].received = 2
    /\ Len(uptime_checks) = 2
    /\ \A k \in 1..2 : uptime_checks[k].location = "SG"
    /\ DOMAIN agent_heartbeats = {"SG"}
    /\ agent_heartbeats["SG"].status = "active"

\* C23: a step of save_check_result is one of at most three attempts; it appends at
\* most one record, and when it appends one the function returns; an attempt that
\* fails is followed by the next attempt, one nearer to the budget, or, when it was
\* the third, by the return of the function with nothing raised: the run goes on to
\* the platform update of the same result, with its results and its place in them
\* as they were.
C23_SaveStep ==
    \A o \in Origins :
       (run[o].pc = "save" /\ run'[o] # run[o]) =>
          /\ run[o].attempt < MaxRetries
          /\ run'[o].pc \in {"save", "platform"}
          /\ run'[o].results = run[o].results
          /\ run'[o].idx = run[o].idx
          /\ \/ uptime_checks' = uptime_checks
             \/ /\ uptime_checks' =
                      Append(uptime_checks, ProbeRecord(run[o].results[run[o].idx], now))
                /\ run'[o].pc = "platform"
          /\ run'[o].pc = "save" =>
                /\ run'[o].attempt = run[o].attempt + 1
                /\ uptime_checks' = uptime_checks
          /\ (run'[o].pc = "platform" /\ uptime_checks' = uptime_checks) =>
                run[o].attempt = MaxRetries - 1

C24_RegistryStep ==
    /\ DOMAIN subdomains \subseteq DOMAIN subdomains'
    /\ DOMAIN active' = DOMAIN subdomains'
    /\ \A h \in DOMAIN subdomains :
          /\ subdomains'[h] = subdomains[h]
          /\ active[h] => active'[h]

C24_DiscoveryNeverShrinksRegistry == [][C24_RegistryStep]_vars

\* C24 witness: a discovery has run whose page fetch failed and which found neither
\* c, registered and inactive before, nor the seed a by probing; c is still
\* registered.
C24_UnfoundHostStillRegistered ==
    /\ discovery.found # None
    /\ discovery.html[1].kind = "timeout"
    /\ discovery.probes["c"] = "error"
    /\ discovery.probes["a"] = "status400"
    /\ "c" \notin discovery.found[1]
    /\ "c" \in DOMAIN subdomains
    /\ ~active["c"]

\* C25: once discover_all has returned, every seed host and every candidate whose
\* probe succeeded is registered and active, whatever the page fetch and the other
\* probes met; and when the page fetch failed, what was found is exactly the seed
\* hosts and the candidates whose probe succeeded.
C25_FetchFailureSkipsOnlyScrape ==
    discovery.found # None =>
       LET found == discovery.found[1]
           html == discovery.html[1]
           probed == {h \in Candidates : discovery.probes[h] = "ok"}
       IN  /\ Hosts \cup probed \subseteq found
           /\ \A h \in found : h \in DOMAIN subdomains /\ active[h]
           /\ html.kind # "ok" => found = Hosts \cup probed
           /\ html.kind = "ok" => found = Hosts \cup probed \cup html.links

\* C25 witness: the page fetch raised and the probe of the seed b failed; the
\* seeds and c, whose probe succeeded, are registered all the same, on a registry
\* that was empty.
C25_SeedsAndProbedSavedAfterFetchError ==
    /\ discovery.found = Some({"a", "b", "c"})
    /\ discovery.html[1].kind = "exception"
    /\ discovery.probes["b"] = "error"
    /\ discovery.probes["c"] = "ok"
    /\ DOMAIN subdomains = {"a", "b", "c"}
    /\ \A h \in DOMAIN subdomains : active[h]

\* C26: when a call has returned a label other than Unknown, the call on the same
\* headers with one more header of a name that no rule looks for, and the same
\* body, returns the same label.
OtherHeaderItems ==
    {<<"x-xss-protection", "1; mode=block">>, <<"X-Content-Type-Options", "nosniff">>,
     <<"x-request-id", "7">>}

C26_LabelKeptUnderOtherHeaders ==
    (fingerprint.label # None /\ fingerprint.label # Some("Unknown")) =>
       \A item \in OtherHeaderItems :
          detect_platform(Append(fingerprint.headers, item), fingerprint.response_text) =
             fingerprint.label[1]

\* C27: the label a call returns is the one the earliest of the five groups with a
\* matching rule gives (Cloudflare headers, Server header, X-Powered-By header, the
\* chain on the presence of CDN, PaaS and other headers, body) whenever rules of
\* two or more groups match; it is Unknown when no rule of any group matches; and
\* it is the label of the same headers with their names in lower case.
PresentHeaderLabel(h) ==
    IF CdnLabel(h) # None THEN CdnLabel(h)
    ELSE IF "x-dost-gov-ph" \in DOMAIN h \/ Contains(Lower(Get(h, "server")), "gov.ph")
         THEN Some("Philippine Government")
    ELSE IF "x-bettergov" \in DOMAIN h THEN Some("BetterGov Platform")
    ELSE None

GroupLabels(headers, response_text) ==
    LET h == LowerKeys(headers)
    IN  <<CloudflareLabel(h),
          ValueLabel(ServerRules, Get(h, "server")),
          ValueLabel(PoweredByRules, Get(h, "x-powered-by")),
          PresentHeaderLabel(h),
          BodyLabel(response_text)>>

LowerNamed(headers) == [i \in DOMAIN headers |-> <<Lower(headers[i][1]), headers[i][2]>>]

C27_EarliestGroupDecides ==
    fingerprint.label # None =>
       LET labels == GroupLabels(fingerprint.headers, fingerprint.response_text)
           matching == {g \in DOMAIN labels : labels[g] # None}
           label == fingerprint.label[1]
       IN  /\ Cardinality(matching) >= 2 => label = labels[Least(matching)][1]
           /\ matching = {} => label = "Unknown"
           /\ label = detect_platform(LowerNamed(fingerprint.headers),
                                      fingerprint.response_text)

\* C28, as claimed: the step that accepts a report leaves the location of the
\* report online.
C28_AcceptStep ==
    \A c \in Conns :
       (conn[c].pc = "commit" /\ conn'[c].response = "success") =>
          get_agent_status'[conn[c].location].status = "online"

C28_OnlineAfterAcceptedReport == [][C28_AcceptStep]_vars

\* C28, amended: a location is reported online exactly when fewer than 10 minutes
\* have passed since last_seen; last_seen is set by the step that accepts a report
\* of the location and by no other step, to the time the transaction of that report
\* began; so the location is online after that step when the transaction began
\* fewer than 10 minutes before it, and offline from the tenth minute after the
\* transaction began until the next report is accepted.
C28_LastSeenStep ==
    /\ \A l \in DOMAIN agent_heartbeats' :
          get_agent_status'[l].status =
             IF now' - agent_heartbeats'[l].last_seen < 10 THEN "online" ELSE "offline"
    /\ \A c \in Conns :
          (conn[c].pc = "commit" /\ conn'[c].response = "success") =>
             /\ agent_heartbeats'[conn[c].location].last_seen = conn[c].tx_now
             /\ now' - conn[c].tx_now < 10 =>
                   get_agent_status'[conn[c].location].status = "online"
    /\ (\A c \in Conns : ~(conn[c].pc = "commit" /\ conn'[c].response = "success")) =>
          agent_heartbeats' = agent_heartbeats

C28_OnlineWithinWindowOfLastSeen == [][C28_LastSeenStep]_vars

\* C28 witness: EU, online after its report, is offline exactly ten minutes after
\* the transaction of that report began, while SG, which reported later, is online.
C28_OfflineAtTenMinutes ==
    /\ DOMAIN agent_heartbeats = {"EU", "SG"}
    /\ now - agent_heartbeats["EU"].last_seen = 10
    /\ get_agent_status["EU"].status = "offline"
    /\ get_agent_status["SG"].status = "online"

\* C29: in every state the three counts of the alerts view add up to its total, and
\* the status of every registry row is UP, DOWN, FLAPPING or UNKNOWN.
C29_AlertCountsPartition ==
    /\ alerts_page.down_count + alerts_page.flapping_count + alerts_page.unknown_count =
          alerts_page.total_alerts
    /\ \A h \in DOMAIN subdomains :
          subdomains[h].current_status \in {"UP", "DOWN", "FLAPPING", "UNKNOWN"}

\* C29 witness: a is FLAPPING after having been UP, b has never been reported on;
\* the view counts two alerts, one flapping and one unknown.
C29_OneFlappingOneUnknown ==
    /\ alerts_page.subdomains = {"a", "b"}
    /\ alerts_page.total_alerts = 2
    /\ alerts_page.flapping_count = 1
    /\ alerts_page.unknown_count = 1
    /\ alerts_page.down_count = 0
    /\ \E k \in 1..Len(status_log) : status_log[k].to = "UP"

\* C30: each object that holds a store pool has created at most one pool that is
\* still open, however many probe runs, discovery runs and requests there have been.
C30_OnePoolPerHolder == \A holder \in DOMAIN pools : pools[holder] <= 1

\* C31: a step of the state machine sets last_status_change to the current time
\* when its new status differs from the status it read at its start, and leaves
\* last_status_change as it was otherwise.
C31_StampStep ==
    \A c \in Conns, h \in Hosts :
       (/\ conn[c].pc = "update"
        /\ conn[c].results[conn[c].idx].subdomain = h
        /\ conn'[c].pc \in {"insert", "commit"}) =>
          LET read == conn[c].row.current_status
              new  == ViewRow(c, h)'.current_status
          IN  /\ new # read => ViewRow(c, h)'.last_status_change = conn[c].tx_now
              /\ new = read =>
                    ViewRow(c, h)'.last_status_change = ViewRow(c, h).last_status_change

C31_StampedIffStatusChanged == [][C31_StampStep]_vars

\* C31 witness: a status that changed in one report and was kept by a later one,
\* the time of the change still on the row.
C31_ChangeTimeKeptByLaterReport ==
    \E h \in Hosts :
       /\ subdomains[h].current_status = "UP"
       /\ subdomains[h].last_status_change > 0
       /\ subdomains[h].last_status_change < now
       /\ \A c \in Conns : conn[c].pc = "idle"

\* C32: in a manual check cycle the probe run starts only when the discovery has
\* ended, it starts whether the discovery has succeeded or failed, and the request
\* is answered only when run_checks has returned.
C32_CycleStep ==
    LET pc  == run["manual"].pc
        pc2 == run'["manual"].pc
    IN  /\ (~InFlight("manual") /\ InFlight("manual")') => pc = "discovery"
        /\ (pc = "discovery" /\ pc2 # "discovery") => pc2 = "list"
        /\ (pc # "none" /\ pc2 = "none") => pc = "done"
        /\ pc = "discovery" => uptime_checks' = uptime_checks

C32_DiscoveryThenProbesThenAnswer == [][C32_CycleStep]_vars

\* C32 witness: the probe run of a manual cycle has saved a check although the
\* cycle's discovery failed, no discovery having left a pool or a host.
C32_ProbedAfterFailedDiscovery ==
    /\ run["manual"].pc = "platform"
    /\ pools.discovery = 0
    /\ uptime_checks # <<>>

\* C33: after every step of the state machine the stored status and the stored
\* flag agree: current_status is FLAPPING exactly when is_flapping is true.
C33_StatusAgreesWithFlag ==
    \A c \in Conns, h \in Hosts :
       AfterStep(c) =>
          (ViewRow(c, h).current_status = "FLAPPING" <=> ViewRow(c, h).is_flapping)

\* The step that connection c is taking applies to host h an outcome that differs
\* from the outcome applied to h before it.
SingleOutcomeStep(c, h) ==
    /\ conn[c].pc = "update"
    /\ conn[c].results[conn[c].idx].subdomain = h
    /\ conn'[c].pc \in {"insert", "commit"}
    /\ LET outs == SeenOuts(c, h)
       IN  Len(outs) >= 2 /\ outs[Len(outs)] # outs[Len(outs) - 1]

\* C34 (as stated): a step that applies one single down outcome to a host whose
\* status is UP leaves the status as it is, and so does a step that applies one
\* single up outcome to a host whose status is DOWN.
C34_JitterStep ==
    \A c \in Conns, h \in Hosts :
       SingleOutcomeStep(c, h) =>
          LET up == conn[c].results[conn[c].idx].up
              status == ViewRow(c, h).current_status
          IN  /\ (status = "UP" /\ ~up) => ViewRow(c, h)'.current_status = "UP"
              /\ (status = "DOWN" /\ up) => ViewRow(c, h)'.current_status = "DOWN"

C34_SingleOutcomeKeepsStatus == [][C34_JitterStep]_vars

\* C34 (amended): such a step never turns UP into DOWN or DOWN into UP; it leaves
\* the status as it is unless the five most recent outcomes, the new one included,
\* hold 2 or 3 ups, and then it sets FLAPPING.
C34_AmendedStep ==
    \A c \in Conns, h \in Hosts :
       SingleOutcomeStep(c, h) =>
          LET up == conn[c].results[conn[c].idx].up
              status == ViewRow(c, h).current_status
              outs == SeenOuts(c, h)
              mixed == /\ Len(outs) >= FlapWindow
                       /\ UpsInWindow(outs) \in FlapMinUps..FlapMaxUps
          IN  ((status = "UP" /\ ~up) \/ (status = "DOWN" /\ up)) =>
                 ViewRow(c, h)'.current_status = IF mixed THEN "FLAPPING" ELSE status

C34_SingleOutcomeKeepsOrFlaps == [][C34_AmendedStep]_vars

\* C34 witness: a host still UP after one down outcome has been applied to it.
C34_UpAfterOneDown ==
    \E h \in Hosts :
       /\ subdomains[h].current_status = "UP"
       /\ subdomains[h].consecutive_down_count = 1
       /\ ~subdomains[h].is_flapping

\* The length of the run of outcomes v at the head of a sequence of check rows.
RECURSIVE LeadingRun(_, _)
LeadingRun(rows, v) ==
    IF rows = <<>> \/ rows[1].up # v THEN 0
    ELSE 1 + LeadingRun(Tail(rows), v)

\* The committed checks of host h, the most recent first.
LogOf(h) == OrderDesc(uptime_checks, ChecksOf(uptime_checks, h))

\* C35: the committed counters of every registered host agree with its committed
\* check log, ordered by time: consecutive_up_count is the length of the run of ups
\* at the most recent end, consecutive_down_count that of the run of downs.
C35_CountersAgreeWithLog ==
    \A h \in DOMAIN subdomains :
       /\ subdomains[h].consecutive_up_count = LeadingRun(LogOf(h), U)
       /\ subdomains[h].consecutive_down_count = LeadingRun(LogOf(h), D)

\* C36: a status that is UP, DOWN or FLAPPING is never set back to UNKNOWN, by a
\* step of the state machine, of a probe run or of a discovery run.
C36_KnownStep ==
    \A c \in Conns, h \in DOMAIN subdomains :
       ViewRow(c, h).current_status # "UNKNOWN" =>
          /\ h \in DOMAIN subdomains'
          /\ ViewRow(c, h)'.current_status # "UNKNOWN"

C37_UpCarriesNoError ==
    probe.result # None =>
       (probe.result[1].up => probe.result[1].error_message = None)

\* C38: the step of a probe run that follows a probe which got no HTTP response on
\* either protocol leaves the stored platform of the probed host as it was.
C38_FailedProbeStep ==
    \A o \in Origins :
       (run[o].pc = "platform" /\ run'[o] # run[o]) =>
          LET result == run[o].results[run[o].idx]
          IN  result.status_code = None =>
                 platforms'[result.subdomain].platform = platforms[result.subdomain].platform

C38_FailedProbeKeepsPlatform == [][C38_FailedProbeStep]_vars

\* C39: no step changes the active flag of a host that is in the registry; a host
\* that was deactivated stays inactive through a discovery run.
C39_ActiveFlagStep ==
    \A h \in DOMAIN active : h \in DOMAIN active' /\ active'[h] = active[h]

C39_DiscoveryKeepsActiveFlag == [][C39_ActiveFlagStep]_vars

====
